---- MODULE Spec2Model ----
(***************************************************************************)
(* The opt-in usage-telemetry pipeline of the CLI:                         *)
(*   PrivacyService      packages/cli/src/services/privacyService.ts       *)
(*   InteractionTracker  packages/cli/src/services/enhancedLogger.ts       *)
(*                       (second half of the file, lines 102-362)          *)
(*   SupabaseService     unnamed/part_001 (supabaseClient.ts)              *)
(*                                                                         *)
(* Node runs every handler to its first await without interleaving, so one *)
(* action is one synchronous stretch of code.  The suspension points are   *)
(* the insert at the remote store and the backoff timer of the sink; each  *)
(* in-flight sink call is an entry of inflight with its own position.      *)
(***************************************************************************)
EXTENDS Integers, Sequences, FiniteSets, TLC

(***************************************************************************)
(* Bounds of the model.                                                    *)
(***************************************************************************)
\* trackInteraction calls made in one behaviour of Spec
MaxCalls == 3
\* trackInteraction calls made in one behaviour of SpecPrivacy
MaxPrivacyCalls == 2
\* value of the tracker's batchSize field in the behaviours of Spec
BatchBound == 2
\* giveConsent, revokeConsent and updateSettings calls made in one behaviour
MaxSettingsOps == 1
\* giveConsent, revokeConsent and updateSettings calls made in one behaviour
\* of SpecSettings and of SpecPrompt
MaxConsentOps == 3
\* resetSession calls made in one behaviour of SpecPrompt
MaxResets == 1
\* trackInteraction calls made in one behaviour of SpecThreshold
MaxBurstCalls == 12
\* trackInteraction and trackUserPrompt calls made in one behaviour of SpecSink
MaxSinkCalls == 2
\* trackInteraction calls made in one behaviour of SpecStatus
MaxStatusCalls == 3
\* trackInteraction calls made in one behaviour of SpecShutdown
MaxShutdownCalls == 3
\* trackInteraction calls made in one behaviour of SpecFlush
MaxFlushCalls == 3
\* trackInteraction calls made in one behaviour of SpecSameId
MaxSameIdCalls == 3

(***************************************************************************)
(* Program constants.                                                      *)
(***************************************************************************)
maxRetries == 3
retryDelay == 1000
DefaultBatchSize == 10

(***************************************************************************)
(* Optional values: an absent (undefined) value is the empty set, a        *)
(* present value v is {v}.                                                 *)
(***************************************************************************)
None == {}
Some(v) == {v}
IsDefined(x) == x # {}
Get(x) == CHOOSE v \in x : TRUE

REDACTED == "[REDACTED]"

TokenFields ==
  {"inputTokenCount", "outputTokenCount", "totalTokenCount",
   "cachedTokenCount", "thoughtsTokenCount", "toolTokenCount"}

\* the keys a responseData object of updateInteractionWithResponse may hold
ResponseFields ==
  {"outputTokenCount", "totalTokenCount", "cachedTokenCount",
   "thoughtsTokenCount", "toolTokenCount", "responseDurationMs", "metadata"}

PromptIds == {"p1", "p2"}
\* the prompt id of the n-th call in the behaviours of SpecThreshold
BurstId(n) == "p" \o ToString(n)
\* the prompt id of every call in the behaviours of Spec
OneId == {"p1"}

(***************************************************************************)
(* PrivacyService                                                          *)
(***************************************************************************)
DEFAULT_PRIVACY_SETTINGS ==
  [supabaseTrackingEnabled |-> FALSE,
   dataRetentionDays |-> 90,
   trackPrompts |-> TRUE,
   trackTokens |-> TRUE,
   trackMetadata |-> TRUE,
   consentGiven |-> FALSE,
   consentDate |-> None,
   lastPromptDate |-> None]

\* a privacy.json written by the set-up script: consent already given
ConsentedFile ==
  [DEFAULT_PRIVACY_SETTINGS EXCEPT
     !.supabaseTrackingEnabled = TRUE, !.consentGiven = TRUE,
     !.consentDate = Some("date")]

\* mutation: the tracking switch is not consulted
isTrackingEnabled_consentOnly(s) == s.consentGiven

isTrackingEnabled(s) == s.supabaseTrackingEnabled /\ s.consentGiven

\* mutation: the prompt switch alone decides
shouldTrackPrompts_flagOnly(s) == s.trackPrompts

shouldTrackPrompts(s) == isTrackingEnabled(s) /\ s.trackPrompts

\* mutation: the token switch is read from trackPrompts
shouldTrackTokens_byPrompts(s) == isTrackingEnabled(s) /\ s.trackPrompts

shouldTrackTokens(s) == isTrackingEnabled(s) /\ s.trackTokens
shouldTrackMetadata(s) == isTrackingEnabled(s) /\ s.trackMetadata

\* the settings loadSettings can return: the defaults overlaid with the
\* switches a privacy.json file holds
LoadedSettings ==
  {[DEFAULT_PRIVACY_SETTINGS EXCEPT
      !.supabaseTrackingEnabled = e, !.consentGiven = c, !.trackPrompts = p,
      !.trackTokens = t, !.trackMetadata = m] :
     e \in BOOLEAN, c \in BOOLEAN, p \in BOOLEAN, t \in BOOLEAN, m \in BOOLEAN}

BoolSettingKeys ==
  {"supabaseTrackingEnabled", "consentGiven", "trackPrompts", "trackTokens",
   "trackMetadata"}

(***************************************************************************)
(* TrackingData.  Four fields are history, not fields of the program's     *)
(* object: uid numbers the trackInteraction call that created the entry,   *)
(* so that two entries with the same promptId stay distinguishable; at     *)
(* records what shouldTrackPrompts, shouldTrackTokens and                  *)
(* shouldTrackMetadata returned during that call; takes counts the drains  *)
(* that took the entry; fate tells how its last sink call ended ("none",   *)
(* "delivered", "dropped", "abandoned" after exhausted retries, "threw").  *)
(***************************************************************************)
AllTracked == [prompts |-> TRUE, tokens |-> TRUE, metadata |-> TRUE]

TrackingData(uid, text, id, session, model, auth, inTok, meta, cfg) ==
  [uid |-> uid,
   at |-> AllTracked,
   takes |-> 0,
   fate |-> "none",
   promptText |-> text,
   promptId |-> id,
   sessionId |-> session,
   modelName |-> model,
   authType |-> auth,
   inputTokenCount |-> inTok,
   outputTokenCount |-> None,
   totalTokenCount |-> None,
   cachedTokenCount |-> None,
   thoughtsTokenCount |-> None,
   toolTokenCount |-> None,
   responseDurationMs |-> None,
   metadata |-> meta,
   config |-> cfg]

\* the object trackUserPrompt builds
UserPromptData(uid, promptText, promptId, promptLength, authType) ==
  TrackingData(uid, promptText, promptId, "s1", Some("qwen"), authType,
               Some(promptLength),
               Some([promptLength |-> promptLength, timestamp |-> uid]),
               Some("config"))

\* an object as the callers of trackInteraction in the tests build it:
\* prompt, ids, token counts and metadata, no config
DirectData(uid, promptId) ==
  [TrackingData(uid, "Test prompt", promptId, "s1", Some("test-model"), None,
                Some(10), Some([test |-> "data"]), None)
     EXCEPT !.outputTokenCount = Some(20), !.totalTokenCount = Some(30)]

\* A numeric field holds a set of integers: None when the value is undefined,
\* Some(n) for the integer n, and {n, n + 1} for a number strictly between n
\* and n + 1.
Between(n) == {n, n + 1}

\* objects a caller can pass to trackInteraction: the one of the tests, one
\* with a negative count and with a count and a duration that are no
\* integers, and three that lack a required field
BoundaryData(uid) ==
  LET d == DirectData(uid, "p1")
  IN {d,
      [d EXCEPT !.inputTokenCount = Some(-5), !.outputTokenCount = Between(1),
                !.responseDurationMs = Between(1200)],
      [d EXCEPT !.promptText = ""],
      [d EXCEPT !.promptId = ""],
      [d EXCEPT !.sessionId = ""]}

\* mutation: the ids are redacted together with the prompt text
PrivacyFilter_redactIds(s, data) ==
  [data EXCEPT
     !.promptText = IF shouldTrackPrompts(s) THEN data.promptText ELSE REDACTED,
     !.promptId = IF shouldTrackPrompts(s) THEN data.promptId ELSE REDACTED,
     !.sessionId = IF shouldTrackPrompts(s) THEN data.sessionId ELSE REDACTED,
     !.inputTokenCount = IF shouldTrackTokens(s) THEN data.inputTokenCount ELSE None,
     !.outputTokenCount = IF shouldTrackTokens(s) THEN data.outputTokenCount ELSE None,
     !.totalTokenCount = IF shouldTrackTokens(s) THEN data.totalTokenCount ELSE None,
     !.cachedTokenCount = IF shouldTrackTokens(s) THEN data.cachedTokenCount ELSE None,
     !.thoughtsTokenCount = IF shouldTrackTokens(s) THEN data.thoughtsTokenCount ELSE None,
     !.toolTokenCount = IF shouldTrackTokens(s) THEN data.toolTokenCount ELSE None,
     !.metadata = IF shouldTrackMetadata(s) THEN data.metadata ELSE None]

\* the filteredData object of trackInteraction
PrivacyFilter(s, data) ==
  [data EXCEPT
     !.promptText = IF shouldTrackPrompts(s) THEN data.promptText ELSE REDACTED,
     !.inputTokenCount = IF shouldTrackTokens(s) THEN data.inputTokenCount ELSE None,
     !.outputTokenCount = IF shouldTrackTokens(s) THEN data.outputTokenCount ELSE None,
     !.totalTokenCount = IF shouldTrackTokens(s) THEN data.totalTokenCount ELSE None,
     !.cachedTokenCount = IF shouldTrackTokens(s) THEN data.cachedTokenCount ELSE None,
     !.thoughtsTokenCount = IF shouldTrackTokens(s) THEN data.thoughtsTokenCount ELSE None,
     !.toolTokenCount = IF shouldTrackTokens(s) THEN data.toolTokenCount ELSE None,
     !.metadata = IF shouldTrackMetadata(s) THEN data.metadata ELSE None]

\* history: the entry with the answers of the privacy service written into at
Stamp(s, filtered) ==
  [filtered EXCEPT !.at = [prompts |-> shouldTrackPrompts(s),
                           tokens |-> shouldTrackTokens(s),
                           metadata |-> shouldTrackMetadata(s)]]

\* mutation: the entry is put at the head
Enqueue_atHead(q, filtered) == <<filtered>> \o q

\* this.pendingInteractions.push(filteredData)
Enqueue(q, filtered) == Append(q, filtered)

(***************************************************************************)
(* updateInteractionWithResponse: the merge of a pending entry with a      *)
(* responseData object.  A responseData object is a function from the keys *)
(* it holds to optional values: the object spread copies every key the     *)
(* object holds, also one whose value is undefined.                        *)
(***************************************************************************)
\* mutation: the supplied metadata replaces the existing metadata
SpreadMeta_replace(a, b) == IF IsDefined(b) THEN Get(b) ELSE <<>>

\* { ...a, ...b } of two optional metadata objects (spreading undefined adds nothing)
SpreadMeta(a, b) ==
  LET fa == IF IsDefined(a) THEN Get(a) ELSE <<>>
      fb == IF IsDefined(b) THEN Get(b) ELSE <<>>
  IN [k \in (DOMAIN fa) \cup (DOMAIN fb) |->
        IF k \in DOMAIN fb THEN fb[k] ELSE fa[k]]

MergeResponse(existing, responseData) ==
  [k \in DOMAIN existing |->
     IF k = "metadata"
     THEN Some(SpreadMeta(existing.metadata,
                          IF "metadata" \in DOMAIN responseData
                          THEN responseData.metadata ELSE None))
     ELSE IF k \in DOMAIN responseData THEN responseData[k] ELSE existing[k]]

\* mutation: the merged object is pushed instead of stored at its index
ReplaceAt_push(q, i, merged) == Append(q, merged)

\* this.pendingInteractions[pendingIndex] = { ... }
ReplaceAt(q, i, merged) == [q EXCEPT ![i] = merged]

\* mutation: any entry counts as a match
FindIndex_firstSlot(q, promptId) == IF Len(q) > 0 THEN 1 ELSE 0

\* mutation: the last entry with the id is found
FindIndex_lastMatch(q, promptId) ==
  IF \E i \in 1..Len(q) : q[i].promptId = promptId
  THEN CHOOSE i \in 1..Len(q) :
         /\ q[i].promptId = promptId
         /\ \A j \in (i + 1)..Len(q) : q[j].promptId # promptId
  ELSE 0

\* pendingInteractions.findIndex(i => i.promptId === promptId); 0 stands for -1
FindIndex(q, promptId) ==
  IF \E i \in 1..Len(q) : q[i].promptId = promptId
  THEN CHOOSE i \in 1..Len(q) :
         /\ q[i].promptId = promptId
         /\ \A j \in 1..(i - 1) : q[j].promptId # promptId
  ELSE 0

\* the responseData object EnhancedLogger.logApiResponse builds from an event:
\* every key is present, the counts the event lacks are undefined
ApiResponseData ==
  [outputTokenCount |-> Some(42),
   totalTokenCount |-> Some(47),
   cachedTokenCount |-> None,
   thoughtsTokenCount |-> None,
   toolTokenCount |-> None,
   responseDurationMs |-> Some(1200),
   metadata |-> Some([model |-> "qwen", statusCode |-> 200, error |-> None])]

\* a responseData object with one key, as the tracker's own callers pass it
OutputOnlyData == [outputTokenCount |-> Some(25)]

(***************************************************************************)
(* SupabaseService: the synchronous parts of logUserInteraction            *)
(***************************************************************************)
\* the interaction object processPendingInteractions hands to the sink
ToInteraction(data) ==
  [uid |-> data.uid,
   prompt_text |-> data.promptText,
   prompt_id |-> data.promptId,
   session_id |-> data.sessionId,
   model_name |-> data.modelName,
   auth_type |-> data.authType,
   input_token_count |-> data.inputTokenCount,
   output_token_count |-> data.outputTokenCount,
   total_token_count |-> data.totalTokenCount,
   cached_token_count |-> data.cachedTokenCount,
   thoughts_token_count |-> data.thoughtsTokenCount,
   tool_token_count |-> data.toolTokenCount,
   response_duration_ms |-> data.responseDurationMs,
   metadata |-> data.metadata]

\* Number.isInteger: false for undefined and for a number that is no integer
IsInteger(x) == Cardinality(x) = 1

\* Number.isInteger(x) ? x : 0
CoerceCount(x) == IF IsInteger(x) THEN x ELSE Some(0)

\* Number.isInteger(x) ? x : undefined
CoerceDuration(x) == IF IsInteger(x) THEN x ELSE None

\* the interactionData object logUserInteraction inserts (the timestamp and
\* the account email, fetched only when a config is passed, left out)
InsertedRow(interaction) ==
  [user_email |-> "user@example.com"] @@
  [interaction EXCEPT
     !.input_token_count = CoerceCount(interaction.input_token_count),
     !.output_token_count = CoerceCount(interaction.output_token_count),
     !.total_token_count = CoerceCount(interaction.total_token_count),
     !.cached_token_count = CoerceCount(interaction.cached_token_count),
     !.thoughts_token_count = CoerceCount(interaction.thoughts_token_count),
     !.tool_token_count = CoerceCount(interaction.tool_token_count),
     !.response_duration_ms = CoerceDuration(interaction.response_duration_ms)]

\* mutation: only the prompt text is required
RequiredPresent_textOnly(interaction) == interaction.prompt_text # ""

\* the "Validate required fields" test of logUserInteraction
RequiredPresent(interaction) ==
  /\ interaction.prompt_text # ""
  /\ interaction.prompt_id # ""
  /\ interaction.session_id # ""

\* messages of the errors an insert may throw, and the test of the catch block
\* (message includes 'network', 'timeout', 'ECONNREFUSED' or 'ENOTFOUND')
ThrownMessages == {"network down", "request timeout", "unexpected"}
\* mutation: every thrown error is retried
IsRetryable_all(message) == message \in {"network down", "request timeout", "unexpected"}

IsRetryable(message) == message \in {"network down", "request timeout"}

\* mutation: an error that is not retried is thrown on to the caller
LogResult_rethrow(ending) ==
  IF ending = "ok" THEN "true"
  ELSE IF ending = "notRetried" THEN "throw" ELSE "false"

\* what logUserInteraction hands to its caller for each way it can end: the
\* sink disabled, a required field missing, the insert done ("ok"), the
\* insert answered with an error object, an error thrown and not retried,
\* the retries exhausted.  It returns false for all but "ok" and never throws.
LogResult(ending) == IF ending = "ok" THEN "true" ELSE "false"

\* mutation: the cap on the retries is not tested
RetryAllowed_always(count) == TRUE

\* retryLogInteraction: the test under which another attempt is made
RetryAllowed(count) == ~(count >= maxRetries)

\* retryLogInteraction: the delay before the attempt, count already incremented
BackoffDelay(count) == retryDelay * (2 ^ (count - 1))

(***************************************************************************)
(* InteractionTracker.processPendingInteractions: the synchronous parts    *)
(***************************************************************************)
\* mutation: the isProcessing flag is not tested
CanDrain_ignoreFlag(processing, q) == ~(Len(q) = 0)

\* mutation: the threshold is reached one entry late
ThresholdReached_late(q, size) == Len(q) > size

\* trackInteraction: this.pendingInteractions.length >= this.batchSize
ThresholdReached(q, size) == Len(q) >= size

\* the early return of processPendingInteractions, negated
CanDrain(processing, q) == ~(processing \/ Len(q) = 0)

\* mutation: the batch is one entry short
TakeBatch_short(q, size) ==
  SubSeq(q, 1, (IF Len(q) < size THEN Len(q) ELSE size) - 1)

\* mutation: the batch is handed on last entry first
TakeBatch_reversed(q, size) ==
  LET n == IF Len(q) < size THEN Len(q) ELSE size
  IN [i \in 1..n |-> q[n + 1 - i]]

\* batch = pendingInteractions.splice(0, batchSize): the removed elements ...
TakeBatch(q, size) == SubSeq(q, 1, IF Len(q) < size THEN Len(q) ELSE size)

\* mutation: the batch is read with slice, which removes nothing
RestAfterBatch_slice(q, size) == q

\* ... and what splice leaves in pendingInteractions
RestAfterBatch(q, size) ==
  SubSeq(q, (IF Len(q) < size THEN Len(q) ELSE size) + 1, Len(q))

\* mutation: an entry whose sink call returned false is unshifted as well
AfterSend_requeueFailed(q, data, outcome) ==
  IF outcome \in {"throw", "false"} THEN <<data>> \o q ELSE q

\* the callback of batch.map after its await: only a throwing sink call
\* reaches the catch block, which unshifts the entry
AfterSend(q, data, outcome) ==
  IF outcome = "throw" THEN <<data>> \o q ELSE q

\* mutation: the loop goes on whether or not anything is pending
FlushLoops_ignorePending(q, processing) == ~processing

\* the condition of the while loop of flush
FlushLoops(q, processing) == Len(q) > 0 /\ ~processing


(***************************************************************************)
(* SupabaseService: construction.  Strings that the constructor inspects   *)
(* are sequences of one-character strings; the empty sequence stands for   *)
(* an environment variable that is not set.                                *)
(***************************************************************************)
Whitespace == {" ", "\t", "\n"}
Letters == {"a", "b", "c", "h", "p", "s", "t"}

\* /^[^\s@]+@[^\s@]+\.[^\s@]+$/.test(s)
EmailRegexTest(s) ==
  \E a \in 1..Len(s), d \in 1..Len(s) :
    /\ s[a] = "@"
    /\ a > 1
    /\ d > a + 1
    /\ d < Len(s)
    /\ s[d] = "."
    /\ \A i \in 1..Len(s) : /\ s[i] \notin Whitespace
                            /\ (i # a => s[i] # "@")

\* "new URL(url)" does not throw: the string starts with a scheme of
\* letters and a colon, and an http(s) URL names a host after "//"
UrlParses(u) ==
  \E k \in 2..Len(u) :
    /\ u[k] = ":"
    /\ \A i \in 1..(k - 1) : u[i] \in Letters
    /\ LET scheme == SubSeq(u, 1, k - 1)
           rest == SubSeq(u, k + 1, Len(u))
       IN scheme \in {<<"h", "t", "t", "p">>, <<"h", "t", "t", "p", "s">>}
            => /\ Len(rest) > 2
               /\ rest[1] = "/"
               /\ rest[2] = "/"
               /\ rest[3] \notin {"/", ":", "@"} \cup Whitespace

\* mutation: the format of the email is not tested
Initialize_skipEmail(e) ==
  /\ ~e.validationError
  /\ ~(e.url = <<>> \/ e.anonKey = <<>> \/ e.userEmail = <<>>)
  /\ UrlParses(e.url)
  /\ ~e.createClientThrows

\* SupabaseService.initialize followed by isEnabled(): the value of
\* isInitialized && config?.enabled === true after construction
Initialize(e) ==
  /\ ~e.validationError
  /\ ~(e.url = <<>> \/ e.anonKey = <<>> \/ e.userEmail = <<>>)
  /\ UrlParses(e.url)
  /\ EmailRegexTest(e.userEmail)
  /\ ~e.createClientThrows

ValidUrl == <<"h", "t", "t", "p", "s", ":", "/", "/", "t", ".", "c">>
ValidEmail == <<"t", "@", "e", ".", "c">>

\* the values of SUPABASE_URL, SUPABASE_ANON_KEY and SUPABASE_USER_EMAIL,
\* whether validateSupabaseConfig reports an error and whether createClient throws
Environments ==
  [url : {<<>>, ValidUrl, <<"i", "n", "v", "-", "u", "r", "l">>,
          <<"h", "t", "t", "p", "s", ":", "/", "/">>},
   anonKey : {<<>>, <<"k">>},
   userEmail : {<<>>, ValidEmail, <<"i", "n", "v", "-", "e">>, <<"t", "@", "e">>,
                <<"t", " ", "@", "e", ".", "c">>},
   validationError : BOOLEAN,
   createClientThrows : BOOLEAN]

\* an environment under which the constructor leaves the sink enabled / not
EnvOf(enabled) ==
  [url |-> IF enabled THEN ValidUrl ELSE <<>>,
   anonKey |-> <<"k">>,
   userEmail |-> ValidEmail,
   validationError |-> FALSE,
   createClientThrows |-> FALSE]

(***************************************************************************)
(* SupabaseService: the operations called directly.  outcome is what the   *)
(* remote call does: "ok", "empty" (no rows), "error" (an error object) or *)
(* "throws"; remote tells whether the operation issued a remote call.      *)
(***************************************************************************)
RemoteOutcomes == {"ok", "empty", "error", "throws"}

\* mutation: the delete is issued without the test of isEnabled()
DeleteUserData_unguarded(enabled, outcome) ==
  [op |-> "deleteUserData", value |-> outcome \in {"ok", "empty"}, remote |-> TRUE]

DeleteUserData(enabled, outcome) ==
  IF ~enabled
  THEN [op |-> "deleteUserData", value |-> FALSE, remote |-> FALSE]
  ELSE [op |-> "deleteUserData", value |-> outcome \in {"ok", "empty"}, remote |-> TRUE]

GetUserInteractions(enabled, outcome) ==
  IF ~enabled
  THEN [op |-> "getUserInteractions", value |-> <<>>, remote |-> FALSE]
  ELSE [op |-> "getUserInteractions",
        value |-> IF outcome = "ok" THEN <<"row">> ELSE <<>>,
        remote |-> TRUE]

HealthCheck(enabled, outcome) ==
  IF ~enabled
  THEN [op |-> "healthCheck",
        value |-> [isHealthy |-> FALSE, error |-> Some("Supabase client not initialized")],
        remote |-> FALSE]
  ELSE [op |-> "healthCheck",
        value |-> IF outcome \in {"ok", "empty"}
                  THEN [isHealthy |-> TRUE, error |-> None]
                  ELSE [isHealthy |-> FALSE, error |-> Some("message")],
        remote |-> TRUE]

(***************************************************************************)
(* State                                                                   *)
(***************************************************************************)
VARIABLES
  settings,      \* PrivacyService.settings
  privacyFile,   \* the settings file as last written by saveSettings
  sinkEnabled,   \* SupabaseService.isEnabled()
  retryCount,    \* SupabaseService.retryCount
  batchSize,     \* InteractionTracker.batchSize
  pending,       \* InteractionTracker.pendingInteractions
  isProcessing,  \* InteractionTracker.isProcessing
  timerActive,   \* the interval of startBatchProcessor is running
  inflight,      \* the sink calls of the batches taken and not yet completed
  flushWaiting,  \* the drain a flush() call awaits, 0 when none does
  nCalls,        \* history: the number of trackInteraction calls made
  nSettingsOps,  \* history: the number of operations on the privacy settings made
  nDone,         \* history: the number of entries whose drain has completed
  flushResolved, \* history: the last operation made a flush() call return
  queueStatus,   \* the object the last getQueueStatus call returned, None before any
  hasShownPromptThisSession,  \* ConsentManager.hasShownPromptThisSession
  promptResult,  \* shouldShow of the last shouldShowConsentPrompt call, None before any
  nShown,        \* history: the shouldShowConsentPrompt calls that returned shouldShow true
  nResets,       \* history: the number of resetSession calls made
  env,           \* process.env and its helpers as the SupabaseService constructor found them
  sinkReply,     \* what the last direct call of a sink operation returned, None before any
  nSinkOps,      \* history: the number of direct calls of sink operations made
  deleting       \* what deleteUserData resolves to for the deleteAllData call awaiting it, else None

vars ==
  <<settings, privacyFile, sinkEnabled, retryCount, batchSize, pending,
    isProcessing, timerActive, inflight, flushWaiting, nCalls, nSettingsOps,
    nDone, flushResolved, queueStatus, hasShownPromptThisSession, promptResult,
    nShown, nResets, env, sinkReply, nSinkOps, deleting>>

\* what the tracker, the sink and the privacy service never write: the
\* fields of the ConsentManager and the value a status query returned
consentVars == <<hasShownPromptThisSession, promptResult, nShown, nResets>>
sinkOpVars == <<env, sinkReply, nSinkOps, deleting>>
observerVars == <<queueStatus, consentVars, sinkOpVars>>

privacyVars == <<settings, privacyFile, nSettingsOps>>
callVars == <<nCalls>>
trackerVars == <<pending, isProcessing, inflight>>

\* the uids of the entries of a sequence of TrackingData
UidsOf(q) == {q[i].uid : i \in 1..Len(q)}

\* the first drain number no entry of infl carries
FreshDrain(infl) ==
  CHOOSE d \in 1..(Len(infl) + 1) :
    /\ \A i \in 1..Len(infl) : infl[i].drain # d
    /\ \A c \in 1..(d - 1) : \E i \in 1..Len(infl) : infl[i].drain = c

\* mutation: a retry sends the entry without its response counts
BeginLog_staleOnRetry(data, d, attempts) ==
  [data |-> IF attempts > 0 THEN [data EXCEPT !.outputTokenCount = None] ELSE data,
   drain |-> d, st |-> "insert", result |-> "none", attempts |-> attempts + 1,
   delay |-> 0]

\* logUserInteraction up to its first suspension: it returns false at once for a
\* disabled sink or a missing required field, else the insert is issued
BeginLog(data, d, attempts) ==
  IF ~sinkEnabled \/ ~RequiredPresent(ToInteraction(data))
  THEN [data |-> [data EXCEPT !.fate = "dropped"], drain |-> d, st |-> "settled",
        result |-> LogResult(IF ~sinkEnabled THEN "disabled" ELSE "invalid"),
        attempts |-> 0, delay |-> 0]
  ELSE [data |-> data, drain |-> d, st |-> "insert", result |-> "none",
        attempts |-> attempts + 1, delay |-> 0]

InitTracker ==
  /\ settings \in {DEFAULT_PRIVACY_SETTINGS, ConsentedFile}
  /\ privacyFile = IF settings = ConsentedFile THEN Some(ConsentedFile) ELSE None
  /\ sinkEnabled \in BOOLEAN
  /\ retryCount = 0
  /\ batchSize \in {BatchBound, DefaultBatchSize}
  /\ pending = <<>>
  /\ isProcessing = FALSE
  /\ timerActive = TRUE
  /\ inflight = <<>>
  /\ flushWaiting = 0
  /\ nCalls = 0
  /\ nSettingsOps = 0
  /\ nDone = 0
  /\ flushResolved = FALSE
  /\ queueStatus = None
  /\ hasShownPromptThisSession = FALSE
  /\ promptResult = None
  /\ nShown = 0
  /\ nResets = 0
  /\ sinkReply = None
  /\ nSinkOps = 0
  /\ deleting = None

Init ==
  /\ InitTracker
  /\ env = EnvOf(sinkEnabled)

(***************************************************************************)
(* processPendingInteractions called with pendingInteractions = q, the     *)
(* sink calls infl in flight and isProcessing = processing: up to the      *)
(* await of Promise.allSettled.                                            *)
(***************************************************************************)
ProcessPendingInteractions(q, infl, processing) ==
  IF ~CanDrain(processing, q)
  THEN /\ pending' = q
       /\ inflight' = infl
       /\ isProcessing' = processing
  ELSE LET batch == TakeBatch(q, batchSize)
           d == FreshDrain(infl)
           sent == [i \in 1..Len(batch) |->
                      BeginLog([batch[i] EXCEPT !.takes = @ + 1], d, 0)]
       IN /\ pending' = RestAfterBatch(q, batchSize)
          /\ inflight' = infl \o sent
          /\ isProcessing' = TRUE

(***************************************************************************)
(* InteractionTracker: the public operations                               *)
(***************************************************************************)
TrackInteraction(data) ==
  /\ nCalls' = nCalls + 1
  /\ IF ~isTrackingEnabled(settings)
     THEN /\ UNCHANGED <<privacyVars, pending, inflight, isProcessing>>
          /\ flushResolved' = FALSE
     ELSE LET q == Enqueue(pending, Stamp(settings, PrivacyFilter(settings, data)))
          IN /\ settings' = [settings EXCEPT !.lastPromptDate = Some(data.uid)]
             /\ privacyFile' = Some(settings')
             /\ UNCHANGED nSettingsOps
             /\ IF ThresholdReached(q, batchSize)
                THEN /\ ProcessPendingInteractions(q, inflight, isProcessing)
                     /\ flushResolved' = FALSE
                ELSE /\ pending' = q
                     /\ UNCHANGED <<inflight, isProcessing>>
                     /\ flushResolved' = FALSE
  /\ UNCHANGED <<sinkEnabled, retryCount, batchSize, observerVars, timerActive, flushWaiting, nDone>>

\* trackInteraction called with an object of the caller's own
TrackDirect(ids, maxCalls) ==
  \E id \in ids :
    /\ nCalls < maxCalls
    /\ TrackInteraction(DirectData(nCalls + 1, id))

\* trackInteraction called with any of the objects of BoundaryData
TrackBoundary(maxCalls) ==
  \E data \in BoundaryData(nCalls + 1) :
    /\ nCalls < maxCalls
    /\ TrackInteraction(data)

TrackUserPrompt(ids, maxCalls) ==
  \E id \in ids :
    /\ nCalls < maxCalls
    /\ IF ~sinkEnabled
       THEN /\ flushResolved' = FALSE
            /\ UNCHANGED <<privacyVars, trackerVars, sinkEnabled, retryCount,
                           batchSize, observerVars, timerActive, flushWaiting, callVars, nDone>>
       ELSE TrackInteraction(UserPromptData(nCalls + 1, "hello", id, 5,
                                            Some("qwen-oauth")))

UpdateInteractionWithResponse(ids, responses) ==
  \E id \in ids, responseData \in responses :
    /\ IF ~sinkEnabled
       THEN /\ flushResolved' = FALSE
            /\ UNCHANGED pending
       ELSE LET pendingIndex == FindIndex(pending, id)
            IN IF pendingIndex # 0
               THEN /\ pending' = ReplaceAt(pending, pendingIndex,
                                             MergeResponse(pending[pendingIndex],
                                                           responseData))
                    /\ flushResolved' = FALSE
               ELSE /\ flushResolved' = FALSE
                    /\ UNCHANGED pending
    /\ UNCHANGED <<privacyVars, sinkEnabled, retryCount, batchSize, observerVars, isProcessing,
                   timerActive, inflight, flushWaiting, callVars, nDone>>

\* mutation: the count leaves out what is pending while a drain runs
QueueStatus_idleOnly(q, processing, enabled) ==
  [pendingCount |-> IF processing THEN 0 ELSE Len(q),
   isProcessing |-> processing,
   isEnabled |-> enabled]

\* the object getQueueStatus returns
QueueStatus(q, processing, enabled) ==
  [pendingCount |-> Len(q),
   isProcessing |-> processing,
   isEnabled |-> enabled]

GetQueueStatus ==
  /\ queueStatus' = Some(QueueStatus(pending, isProcessing, sinkEnabled))
  /\ flushResolved' = FALSE
  /\ UNCHANGED <<privacyVars, sinkEnabled, retryCount, batchSize, consentVars, sinkOpVars,
                 trackerVars, timerActive, flushWaiting, callVars, nDone>>

\* the callback of setInterval
TimerTick ==
  /\ timerActive
  /\ ProcessPendingInteractions(pending, inflight, isProcessing)
  /\ flushResolved' = FALSE
  /\ UNCHANGED <<privacyVars, sinkEnabled, retryCount, batchSize, observerVars, timerActive,
                 flushWaiting, callVars, nDone>>

\* flush() up to its first await, or to its return
FlushBody ==
  IF FlushLoops(pending, isProcessing)
  THEN /\ ProcessPendingInteractions(pending, inflight, isProcessing)
       /\ flushWaiting' = FreshDrain(inflight)
       /\ flushResolved' = FALSE
  ELSE /\ flushResolved' = TRUE
       /\ UNCHANGED <<trackerVars, flushWaiting>>

Flush ==
  /\ FlushBody
  /\ UNCHANGED <<privacyVars, sinkEnabled, retryCount, batchSize, observerVars, timerActive,
                 callVars, nDone>>

\* the shutdown handler of setupGracefulShutdown
Shutdown ==
  /\ timerActive' = FALSE
  /\ FlushBody
  /\ UNCHANGED <<privacyVars, sinkEnabled, retryCount, batchSize, observerVars, callVars, nDone>>

(***************************************************************************)
(* The sink calls in flight.  Entry i of inflight is the callback of       *)
(* batch.map for one entry of a batch, suspended in logUserInteraction.    *)
(***************************************************************************)
\* logUserInteraction has returned (outcome "true" or "false") or thrown to the
\* callback of batch.map, which then runs to its end
Settle(i, outcome, fate) ==
  /\ inflight' = [inflight EXCEPT ![i].st = "settled", ![i].result = outcome,
                                  ![i].delay = 0, ![i].attempts = 0, ![i].data.fate = fate]
  /\ pending' = AfterSend(pending, [inflight[i].data EXCEPT !.fate = fate], outcome)

sinkFrame ==
  <<privacyVars, sinkEnabled, batchSize, observerVars, isProcessing, timerActive, flushWaiting,
    callVars, nDone>>

CountAfterSuccess_keep(count) == count

\* "this.retryCount = 0" after an insert without error
CountAfterSuccess(count) == 0

\* the insert resolves without an error
InsertOk ==
  \E i \in 1..Len(inflight) :
    /\ inflight[i].st = "insert"
    /\ retryCount' = CountAfterSuccess(retryCount)
    /\ Settle(i, LogResult("ok"), "delivered")
    /\ flushResolved' = FALSE
    /\ UNCHANGED sinkFrame

\* the insert resolves with an error object (policy violation, duplicate key, ...)
InsertErrorAt(i) ==
  /\ inflight[i].st = "insert"
  /\ Settle(i, LogResult("error"), "dropped")
  /\ flushResolved' = FALSE
  /\ UNCHANGED <<sinkFrame, retryCount>>

InsertError == \E i \in 1..Len(inflight) : InsertErrorAt(i)

\* the insert throws: the catch block of logUserInteraction, and
\* retryLogInteraction up to its await of the backoff timer
InsertThrowsAt(i, message) ==
  /\ inflight[i].st = "insert"
  /\ IF ~IsRetryable(message)
     THEN /\ Settle(i, LogResult("notRetried"), "dropped")
          /\ flushResolved' = FALSE
          /\ UNCHANGED retryCount
     ELSE IF ~RetryAllowed(retryCount)
     THEN /\ retryCount' = 0
          /\ Settle(i, LogResult("exhausted"), "abandoned")
          /\ flushResolved' = FALSE
     ELSE /\ retryCount' = retryCount + 1
          /\ inflight' = [inflight EXCEPT ![i].st = "backoff",
                                          ![i].delay = BackoffDelay(retryCount')]
          /\ flushResolved' = FALSE
          /\ UNCHANGED pending
  /\ UNCHANGED sinkFrame

InsertThrows ==
  \E i \in 1..Len(inflight), message \in ThrownMessages : InsertThrowsAt(i, message)

\* the backoff timer fires: retryLogInteraction calls logUserInteraction again
BackoffElapsed ==
  \E i \in 1..Len(inflight) :
    /\ inflight[i].st = "backoff"
    /\ LET e == BeginLog(inflight[i].data, inflight[i].drain, inflight[i].attempts)
       IN IF e.st = "settled"
          THEN Settle(i, e.result, "dropped")
          ELSE /\ inflight' = [inflight EXCEPT ![i] = e]
               /\ UNCHANGED pending
    /\ flushResolved' = FALSE
    /\ UNCHANGED <<sinkFrame, retryCount>>

\* Promise.allSettled of drain d resolves: the finally block of
\* processPendingInteractions, and flush() resumed when it awaits this drain
DrainComplete ==
  \E d \in {inflight[i].drain : i \in 1..Len(inflight)} :
    /\ \A i \in 1..Len(inflight) :
         inflight[i].drain = d => inflight[i].st = "settled"
    /\ nDone' = nDone + Cardinality({i \in 1..Len(inflight) : inflight[i].drain = d})
    /\ LET rest == SelectSeq(inflight, LAMBDA e : e.drain # d)
       IN IF flushWaiting = d
          THEN IF FlushLoops(pending, FALSE)
               THEN /\ ProcessPendingInteractions(pending, rest, FALSE)
                    /\ flushWaiting' = FreshDrain(rest)
                    /\ flushResolved' = FALSE
               ELSE /\ inflight' = rest
                    /\ isProcessing' = FALSE
                    /\ flushWaiting' = 0
                    /\ flushResolved' = TRUE
                    /\ UNCHANGED pending
          ELSE /\ inflight' = rest
               /\ isProcessing' = FALSE
               /\ flushResolved' = FALSE
               /\ UNCHANGED <<pending, flushWaiting>>
    /\ UNCHANGED <<privacyVars, sinkEnabled, retryCount, batchSize, observerVars, timerActive, callVars>>

(***************************************************************************)
(* PrivacyService: the operations that change the settings                 *)
(***************************************************************************)
privacyFrame ==
  <<sinkEnabled, retryCount, batchSize, observerVars, timerActive, flushWaiting, callVars,
    trackerVars, nDone>>

GiveConsentOp(maxOps) ==
  /\ nSettingsOps < maxOps
  /\ nSettingsOps' = nSettingsOps + 1
  /\ settings' = [settings EXCEPT !.consentGiven = TRUE,
                                  !.consentDate = Some("date"),
                                  !.supabaseTrackingEnabled = TRUE]
  /\ privacyFile' = Some(settings')
  /\ flushResolved' = FALSE
  /\ UNCHANGED privacyFrame

GiveConsent == GiveConsentOp(MaxSettingsOps)

RevokeConsentOp(maxOps) ==
  /\ nSettingsOps < maxOps
  /\ nSettingsOps' = nSettingsOps + 1
  /\ settings' = [settings EXCEPT !.consentGiven = FALSE,
                                  !.supabaseTrackingEnabled = FALSE]
  /\ privacyFile' = Some(settings')
  /\ flushResolved' = FALSE
  /\ UNCHANGED privacyFrame

RevokeConsent == RevokeConsentOp(MaxSettingsOps)

\* updateSettings with a newSettings object holding one key
UpdateSettingsOp(maxOps, keys, values) ==
  \E key \in keys, value \in values :
    /\ nSettingsOps < maxOps
    /\ nSettingsOps' = nSettingsOps + 1
    /\ settings' = [settings EXCEPT ![key] = value]
    /\ privacyFile' = Some(settings')
    /\ flushResolved' = FALSE
    /\ UNCHANGED privacyFrame

UpdateSettings == UpdateSettingsOp(MaxSettingsOps, BoolSettingKeys, BOOLEAN)

(***************************************************************************)
(* ConsentManager                                                          *)
(***************************************************************************)
\* SupabaseService.getConfig(): initialize sets config and isInitialized
\* together, so there is a config exactly when the sink is enabled
SinkConfig(enabled) == IF enabled THEN Some([enabled |-> TRUE]) ELSE None

\* PrivacyService.needsConsentPrompt
needsConsentPrompt(s, config) == config # None /\ ~s.consentGiven

\* mutation: the session flag is not consulted
ShouldShow_ignoreShown(shown, config, s) ==
  /\ config # None
  /\ ~isTrackingEnabled(s)
  /\ needsConsentPrompt(s, config)

\* shouldShow of the object shouldShowConsentPrompt returns
ShouldShow(shown, config, s) ==
  /\ ~shown
  /\ config # None
  /\ ~isTrackingEnabled(s)
  /\ needsConsentPrompt(s, config)

consentFrame ==
  <<privacyVars, sinkEnabled, retryCount, batchSize, queueStatus, sinkOpVars, trackerVars,
    timerActive, flushWaiting, callVars, nDone>>

ShouldShowConsentPrompt ==
  LET shouldShow == ShouldShow(hasShownPromptThisSession, SinkConfig(sinkEnabled),
                               settings)
  IN /\ promptResult' = Some(shouldShow)
     /\ hasShownPromptThisSession' = (hasShownPromptThisSession \/ shouldShow)
     /\ nShown' = IF shouldShow THEN nShown + 1 ELSE nShown
     /\ flushResolved' = FALSE
     /\ UNCHANGED <<consentFrame, nResets>>

MarkPromptShown ==
  /\ hasShownPromptThisSession' = TRUE
  /\ flushResolved' = FALSE
  /\ UNCHANGED <<consentFrame, promptResult, nShown, nResets>>

ResetSession ==
  /\ nResets < MaxResets
  /\ nResets' = nResets + 1
  /\ hasShownPromptThisSession' = FALSE
  /\ flushResolved' = FALSE
  /\ UNCHANGED <<consentFrame, promptResult, nShown>>

(***************************************************************************)
(* Spec: the queue, the batch processor and the sink with every outcome of *)
(* an insert, for entries tracked with one prompt id under settings that   *)
(* do not change, and updates that carry one key, for that id and for an   *)
(* id no entry has.                                                        *)
(***************************************************************************)
Next ==
  \/ TrackDirect(OneId, MaxCalls)
  \/ UpdateInteractionWithResponse(PromptIds, {OutputOnlyData})
  \/ TimerTick
  \/ Flush
  \/ Shutdown
  \/ InsertOk
  \/ InsertError
  \/ InsertThrows
  \/ BackoffElapsed
  \/ DrainComplete

InitSpec ==
  /\ Init
  /\ batchSize = BatchBound

Spec == InitSpec /\ [][Next]_vars

(***************************************************************************)
(* SpecPrivacy: the tracker under changing privacy settings, with both     *)
(* kinds of tracked object, two prompt ids, the responses of                *)
(* logApiResponse, the tracker's own batchSize and a sink whose inserts     *)
(* succeed.                                                                *)
(***************************************************************************)
NextPrivacy ==
  \/ TrackDirect(PromptIds, MaxPrivacyCalls)
  \/ TrackUserPrompt(PromptIds, MaxPrivacyCalls)
  \/ UpdateInteractionWithResponse(PromptIds, {ApiResponseData})
  \/ TimerTick
  \/ InsertOk
  \/ DrainComplete
  \/ GiveConsent
  \/ RevokeConsent
  \/ UpdateSettings

InitPrivacy ==
  /\ Init
  /\ batchSize = DefaultBatchSize

SpecPrivacy == InitPrivacy /\ [][NextPrivacy]_vars

(***************************************************************************)
(* SpecFilter: trackInteraction and trackUserPrompt under every            *)
(* combination of the switches of the privacy settings.                    *)
(***************************************************************************)
NextFilter ==
  \/ TrackDirect(PromptIds, MaxPrivacyCalls)
  \/ TrackUserPrompt(PromptIds, MaxPrivacyCalls)

InitFilter ==
  /\ settings \in LoadedSettings
  /\ privacyFile = Some(settings)
  /\ sinkEnabled \in BOOLEAN
  /\ retryCount = 0
  /\ batchSize = DefaultBatchSize
  /\ pending = <<>>
  /\ isProcessing = FALSE
  /\ timerActive = TRUE
  /\ inflight = <<>>
  /\ flushWaiting = 0
  /\ nCalls = 0
  /\ nSettingsOps = 0
  /\ nDone = 0
  /\ flushResolved = FALSE
  /\ queueStatus = None
  /\ hasShownPromptThisSession = FALSE
  /\ promptResult = None
  /\ nShown = 0
  /\ nResets = 0
  /\ env = EnvOf(sinkEnabled)
  /\ sinkReply = None
  /\ nSinkOps = 0
  /\ deleting = None

SpecFilter == InitFilter /\ [][NextFilter]_vars

(***************************************************************************)
(* SpecThreshold: a burst of trackInteraction calls with ids p1, p2, ...   *)
(* against the tracker's own batchSize and a sink whose inserts succeed.   *)
(***************************************************************************)
NextThreshold ==
  \/ TrackDirect({BurstId(nCalls + 1)}, MaxBurstCalls)
  \/ TimerTick
  \/ InsertOk
  \/ DrainComplete

InitThreshold ==
  /\ Init
  /\ settings = ConsentedFile
  /\ sinkEnabled
  /\ batchSize = DefaultBatchSize

SpecThreshold == InitThreshold /\ [][NextThreshold]_vars

(***************************************************************************)
(* SpecSink: the tracker in front of a sink that may be disabled, with     *)
(* records that fail its validation or carry counts that are no natural    *)
(* numbers, and inserts that succeed, answer with an error or throw.       *)
(***************************************************************************)
NextSink ==
  \/ TrackBoundary(MaxSinkCalls)
  \/ TrackUserPrompt(OneId, MaxSinkCalls)
  \/ UpdateInteractionWithResponse(OneId, {OutputOnlyData})
  \/ TimerTick
  \/ InsertOk
  \/ InsertError
  \/ InsertThrows
  \/ BackoffElapsed
  \/ DrainComplete

InitSink ==
  /\ Init
  /\ settings = ConsentedFile
  /\ batchSize = DefaultBatchSize

SpecSink == InitSink /\ [][NextSink]_vars

(***************************************************************************)
(* SpecStatus: getQueueStatus called at any moment between track calls,    *)
(* timer ticks and the sink calls of the drains.                           *)
(***************************************************************************)
NextStatus ==
  \/ TrackDirect(OneId, MaxStatusCalls)
  \/ TimerTick
  \/ InsertOk
  \/ DrainComplete
  \/ GetQueueStatus

InitStatus ==
  /\ Init
  /\ settings = ConsentedFile
  /\ batchSize = BatchBound

SpecStatus == InitStatus /\ [][NextStatus]_vars

(***************************************************************************)
(* SpecShutdown: the shutdown hook run at any moment, with a sink whose    *)
(* inserts succeed.                                                        *)
(***************************************************************************)
NextShutdown ==
  \/ TrackDirect(OneId, MaxShutdownCalls)
  \/ TimerTick
  \/ Shutdown
  \/ InsertOk
  \/ DrainComplete

InitShutdown ==
  /\ Init
  /\ settings = ConsentedFile
  /\ sinkEnabled
  /\ batchSize = BatchBound

SpecShutdown == InitShutdown /\ [][NextShutdown]_vars

(***************************************************************************)
(* SpecFlush: flush() called at any moment, inserts that succeed, answer   *)
(* with an error or throw.  The fairness conditions say that every insert  *)
(* issued is answered (the sink's calls return), that a backoff timer      *)
(* fires, and that the continuation of a settled Promise.allSettled runs.  *)
(***************************************************************************)
NextFlush ==
  \/ TrackDirect(OneId, MaxFlushCalls)
  \/ TimerTick
  \/ Flush
  \/ InsertOk
  \/ InsertError
  \/ InsertThrows
  \/ BackoffElapsed
  \/ DrainComplete

InitFlush ==
  /\ Init
  /\ settings = ConsentedFile
  /\ sinkEnabled
  /\ batchSize = BatchBound

SpecFlush ==
  /\ InitFlush
  /\ [][NextFlush]_vars
  /\ WF_vars(InsertOk \/ InsertError \/ InsertThrows)
  /\ WF_vars(BackoffElapsed)
  /\ WF_vars(DrainComplete)

(***************************************************************************)
(* SpecSettings: sequences of giveConsent, revokeConsent and               *)
(* updateSettings (one switch, or the retention period) on any settings a  *)
(* privacy.json can hold.                                                  *)
(***************************************************************************)
NextSettings ==
  \/ GiveConsentOp(MaxConsentOps)
  \/ RevokeConsentOp(MaxConsentOps)
  \/ UpdateSettingsOp(MaxConsentOps, BoolSettingKeys, BOOLEAN)
  \/ UpdateSettingsOp(MaxConsentOps, {"dataRetentionDays"}, {30, 90})

InitSettings ==
  /\ InitFilter
  /\ sinkEnabled

SpecSettings == InitSettings /\ [][NextSettings]_vars

(***************************************************************************)
(* SpecPrompt: the ConsentManager asked at any moment, between consent     *)
(* changes, markPromptShown and resetSession, with a configured or an      *)
(* unconfigured sink.                                                      *)
(***************************************************************************)
NextPrompt ==
  \/ ShouldShowConsentPrompt
  \/ MarkPromptShown
  \/ ResetSession
  \/ GiveConsentOp(MaxConsentOps)
  \/ RevokeConsentOp(MaxConsentOps)
  \/ UpdateSettingsOp(MaxConsentOps, BoolSettingKeys, BOOLEAN)

SpecPrompt == InitFilter /\ [][NextPrompt]_vars

(***************************************************************************)
(* SpecSameId: records tracked with ids that repeat, and updates by id,    *)
(* against the tracker's own batchSize and a sink whose inserts succeed.   *)
(***************************************************************************)
NextSameId ==
  \/ TrackDirect(PromptIds, MaxSameIdCalls)
  \/ UpdateInteractionWithResponse(PromptIds, {OutputOnlyData})
  \/ TimerTick
  \/ InsertOk
  \/ DrainComplete

InitSameId ==
  /\ Init
  /\ settings = ConsentedFile
  /\ sinkEnabled
  /\ batchSize = DefaultBatchSize

SpecSameId == InitSameId /\ [][NextSameId]_vars

(***************************************************************************)
(* SupabaseService: direct calls.  Each is taken as one step, the remote   *)
(* call included, since nothing else reads what the call returns.          *)
(***************************************************************************)
MaxSinkOps == 2

sinkOpFrame ==
  <<privacyVars, batchSize, queueStatus, consentVars, env, deleting, timerActive,
    flushWaiting, callVars, trackerVars, nDone>>

SinkOp(reply) ==
  /\ nSinkOps < MaxSinkOps
  /\ nSinkOps' = nSinkOps + 1
  /\ sinkReply' = Some(reply)
  /\ flushResolved' = FALSE

DeleteUserDataCall ==
  \E outcome \in RemoteOutcomes :
    /\ SinkOp(DeleteUserData(sinkEnabled, outcome))
    /\ UNCHANGED <<sinkOpFrame, sinkEnabled, retryCount>>

GetUserInteractionsCall ==
  \E outcome \in RemoteOutcomes :
    /\ SinkOp(GetUserInteractions(sinkEnabled, outcome))
    /\ UNCHANGED <<sinkOpFrame, sinkEnabled, retryCount>>

HealthCheckCall ==
  \E outcome \in RemoteOutcomes :
    /\ SinkOp(HealthCheck(sinkEnabled, outcome))
    /\ UNCHANGED <<sinkOpFrame, sinkEnabled, retryCount>>

\* reconnect(): the state is cleared, initialize runs again on the same
\* environment and a health check follows when it succeeded
Reconnect ==
  \E outcome \in RemoteOutcomes :
    /\ sinkEnabled' = Initialize(env)
    /\ retryCount' = 0
    /\ SinkOp([op |-> "reconnect",
               value |-> IF sinkEnabled'
                         THEN HealthCheck(sinkEnabled', outcome).value.isHealthy
                         ELSE FALSE,
               remote |-> sinkEnabled'])
    /\ UNCHANGED sinkOpFrame

(***************************************************************************)
(* SpecInit: the sink constructed under every environment of Environments, *)
(* then used directly and through the tracker.                             *)
(***************************************************************************)
MaxInitCalls == 1

NextInit ==
  \/ TrackDirect(OneId, MaxInitCalls)
  \/ TimerTick
  \/ InsertOk
  \/ InsertError
  \/ InsertThrows
  \/ BackoffElapsed
  \/ DrainComplete
  \/ DeleteUserDataCall
  \/ GetUserInteractionsCall
  \/ HealthCheckCall
  \/ Reconnect

InitInit ==
  /\ InitTracker
  /\ settings = ConsentedFile
  /\ batchSize = BatchBound
  /\ env \in Environments
  /\ sinkEnabled = Initialize(env)

SpecInit == InitInit /\ [][NextInit]_vars

(***************************************************************************)
(* PrivacyService.deleteAllData: the call up to its await of               *)
(* deleteUserData, and its continuation.                                   *)
(***************************************************************************)
\* mutation: consent is revoked whatever the delete returned
AfterDelete_always(s, success) ==
  [s EXCEPT !.consentGiven = FALSE, !.supabaseTrackingEnabled = FALSE]

\* the settings after "if (success) this.revokeConsent()"
AfterDelete(s, success) ==
  IF success
  THEN [s EXCEPT !.consentGiven = FALSE, !.supabaseTrackingEnabled = FALSE]
  ELSE s

deleteFrame ==
  <<sinkEnabled, retryCount, batchSize, queueStatus, consentVars, env, timerActive,
    flushWaiting, callVars, trackerVars, nDone>>

DeleteAllDataBegin ==
  \E outcome \in RemoteOutcomes :
    /\ deleting = None
    /\ nSinkOps < MaxSinkOps
    /\ nSinkOps' = nSinkOps + 1
    /\ deleting' = Some([reply |-> DeleteUserData(sinkEnabled, outcome),
                         outcome |-> outcome])
    /\ flushResolved' = FALSE
    /\ UNCHANGED <<deleteFrame, privacyVars, sinkReply>>

DeleteAllDataEnd ==
  /\ deleting # None
  /\ LET success == Get(deleting).reply.value
     IN /\ settings' = AfterDelete(settings, success)
        /\ privacyFile' = IF success THEN Some(settings') ELSE privacyFile
        /\ sinkReply' = Some([op |-> "deleteAllData", value |-> success,
                              remote |-> Get(deleting).reply.remote])
  /\ deleting' = None
  /\ flushResolved' = FALSE
  /\ UNCHANGED <<deleteFrame, nSettingsOps, nSinkOps>>

(***************************************************************************)
(* SpecRevoke: consent given, revoked and reset by deleteAllData while     *)
(* records are tracked and drained by the timer, flush() and the shutdown  *)
(* handler; every insert succeeds.                                         *)
(***************************************************************************)
MaxRevokeCalls == 2
MaxRevokeOps == 2

NextRevoke ==
  \/ TrackDirect(OneId, MaxRevokeCalls)
  \/ TimerTick
  \/ Flush
  \/ Shutdown
  \/ InsertOk
  \/ DrainComplete
  \/ GiveConsentOp(MaxRevokeOps)
  \/ RevokeConsentOp(MaxRevokeOps)
  \/ DeleteAllDataBegin
  \/ DeleteAllDataEnd

InitRevoke ==
  /\ Init
  /\ settings = ConsentedFile
  /\ batchSize = BatchBound

SpecRevoke == InitRevoke /\ [][NextRevoke]_vars

(***************************************************************************)
(* SpecOutage: a sustained outage.  Every insert throws an error that      *)
(* logUserInteraction retries.  The fairness conditions say that every     *)
(* insert issued is answered, that a backoff timer fires, and that the     *)
(* continuation of a settled Promise.allSettled runs.                      *)
(***************************************************************************)
MaxOutageCalls == 3

InsertThrowsTransient ==
  \E i \in 1..Len(inflight), message \in {m \in ThrownMessages : IsRetryable(m)} :
    InsertThrowsAt(i, message)

NextOutage ==
  \/ TrackDirect(OneId, MaxOutageCalls)
  \/ TimerTick
  \/ Flush
  \/ InsertThrowsTransient
  \/ BackoffElapsed
  \/ DrainComplete

InitOutage ==
  /\ Init
  /\ settings = ConsentedFile
  /\ sinkEnabled
  /\ batchSize = BatchBound

SpecOutage ==
  /\ InitOutage
  /\ [][NextOutage]_vars
  /\ WF_vars(InsertThrowsTransient)
  /\ WF_vars(BackoffElapsed)
  /\ WF_vars(DrainComplete)

(***************************************************************************)
(* SpecLedger: records tracked, updated, drained by the timer and by       *)
(* flush(), with every outcome of the sink.                                *)
(***************************************************************************)
MaxLedgerCalls == 3

NextLedger ==
  \/ TrackDirect(OneId, MaxLedgerCalls)
  \/ UpdateInteractionWithResponse(OneId, {OutputOnlyData})
  \/ TimerTick
  \/ Flush
  \/ InsertOk
  \/ InsertError
  \/ InsertThrows
  \/ BackoffElapsed
  \/ DrainComplete

InitLedger ==
  /\ Init
  /\ settings = ConsentedFile
  /\ sinkEnabled
  /\ batchSize = BatchBound

SpecLedger == InitLedger /\ [][NextLedger]_vars

(***************************************************************************)
(* Properties                                                              *)
(***************************************************************************)
\* the six token fields of the interaction object handed to the sink
TokenColumns ==
  {"input_token_count", "output_token_count", "total_token_count",
   "cached_token_count", "thoughts_token_count", "tool_token_count"}

\* the sink calls not yet returned
Unsettled == {i \in 1..Len(inflight) : inflight[i].st # "settled"}

\* C1: while tracking is not enabled (supabaseTrackingEnabled and consentGiven
\* are not both true), a trackInteraction call, made directly or through
\* trackUserPrompt, changes nothing: the pending sequence keeps its entries,
\* the settings and the settings file (so the last-prompt date) are not
\* written, and no sink call is started.
C1_DisabledTrackIsNoOp ==
  [][(/\ nCalls' # nCalls
      /\ ~(settings.supabaseTrackingEnabled /\ settings.consentGiven))
     => UNCHANGED <<pending, inflight, isProcessing, retryCount, settings,
                    privacyFile>>]_vars

\* a trackInteraction call has been made, every call so far was made with
\* tracking not enabled, and nothing is pending
C1_Witness ==
  /\ nCalls > 0
  /\ settings.lastPromptDate = None
  /\ ~isTrackingEnabled(settings)
  /\ pending = <<>>
  /\ inflight = <<>>

\* C2: an entry handed to the sink that was tracked while trackTokens was
\* false carries none of the six token fields, and one tracked while
\* trackMetadata was false carries no metadata, whatever updates were applied
\* to it while it was pending.
C2_RedactedStaysAbsent ==
  \A i \in 1..Len(inflight) :
    LET data == inflight[i].data
        interaction == ToInteraction(data)
    IN /\ ~data.at.tokens => \A c \in TokenColumns : interaction[c] = None
       /\ ~data.at.metadata => interaction.metadata = None

\* an entry tracked while trackTokens was false has been handed to the sink
C2_Witness ==
  \E i \in 1..Len(inflight) :
    /\ ~inflight[i].data.at.tokens
    /\ inflight[i].st = "insert"

\* C3: a flush() call returns only when nothing is pending; it does not
\* return while a drain is in flight and entries remain pending.
C3_FlushResolvesEmpty == flushResolved => Len(pending) = 0

\* a flush() call has returned after awaiting a drain
C3_Witness == flushResolved /\ nDone > 0

\* the entries of inflight whose sink call ended with retries exhausted
Abandoned ==
  {i \in 1..Len(inflight) : inflight[i].data.fate = "abandoned"}

\* C4: when the sink calls of a batch have returned, the k entries whose call
\* failed on a transient (network or timeout) error are again the first k
\* entries of the pending sequence, so that the pending count went down by
\* the batch's size less k.
C4_FailedReappearAtHead ==
  (inflight # <<>> /\ Unsettled = {})
    => /\ Len(pending) >= Cardinality(Abandoned)
       /\ {pending[j].uid : j \in 1..Cardinality(Abandoned)}
            = {inflight[i].data.uid : i \in Abandoned}

\* the sink calls of a batch have returned, one of them after a transient
\* failure it gave up on
C4_Witness == Unsettled = {} /\ Abandoned # {}

\* C5: no entry is sent to the remote store more than 3 times, whether its
\* sink call runs alone or next to others that use the same retry counter.
C5_AtMostThreeSends ==
  \A i \in 1..Len(inflight) : inflight[i].attempts <= 3

\* an entry is being sent again after a transient failure
C5_Witness ==
  \E i \in 1..Len(inflight) :
    inflight[i].st = "insert" /\ inflight[i].attempts = 2

\* C6: an entry whose sink call gave up after the retries were exhausted is
\* abandoned: its call has returned false and is not sent again, and the
\* entry is not in the pending sequence (it is not put back).
C6_AbandonedIsGone ==
  /\ \A i \in Abandoned :
       /\ inflight[i].st = "settled"
       /\ inflight[i].result = "false"
       /\ inflight[i].data.uid \notin UidsOf(pending)
  /\ \A j \in 1..Len(pending) : pending[j].fate # "abandoned"

\* an entry has been abandoned while another entry is pending
C6_Witness == Abandoned # {} /\ pending # <<>>

\* C7: at most one drain is in flight: the sink calls in flight all belong to
\* one batch, and a drain request (timer tick, threshold reached in
\* trackInteraction, flush, shutdown) made while isProcessing is true starts
\* no sink call and removes no pending entry.
C7_OneDrainInFlight ==
  /\ [](\A i, j \in 1..Len(inflight) : inflight[i].drain = inflight[j].drain)
  /\ [](inflight # <<>> => isProcessing)
  /\ [][(/\ isProcessing
         /\ TimerTick \/ Flush \/ Shutdown \/ TrackDirect(OneId, MaxCalls))
        => /\ inflight' = inflight
           /\ Len(pending') >= Len(pending)
           /\ SubSeq(pending', 1, Len(pending)) = pending]_vars

\* flush() was called while a drain was in flight and entries were pending
C7_Witness ==
  /\ isProcessing
  /\ flushResolved
  /\ Unsettled # {}
  /\ pending # <<>>

\* C8: no entry is handed to the sink by two drains: an entry taken by a
\* drain is not pending any more, every entry is in the pending sequence or in
\* flight at most once, and an entry the remote store accepted is not sent
\* again.
C8_SentOnce ==
  /\ \A j \in 1..Len(pending) : pending[j].takes = 0 /\ pending[j].fate = "none"
  /\ \A i \in 1..Len(inflight) : inflight[i].data.takes = 1
  /\ Cardinality(UidsOf(pending) \cup {inflight[i].data.uid : i \in 1..Len(inflight)})
       = Len(pending) + Len(inflight)
  /\ \A i \in 1..Len(inflight) :
       inflight[i].data.fate = "delivered"
         => inflight[i].st = "settled" /\ inflight[i].result = "true"

\* an entry has been accepted by the remote store in a drain that follows a
\* completed one, while another entry is pending
C8_Witness ==
  /\ nDone > 0
  /\ \E i \in 1..Len(inflight) : inflight[i].data.fate = "delivered"
  /\ pending # <<>>

\* the sink calls waiting for their backoff timer
InBackoff == {i \in 1..Len(inflight) : inflight[i].st = "backoff"}

TrackedEntries(s, uid) ==
  {Stamp(s, PrivacyFilter(s, data)) :
     data \in {DirectData(uid, id) : id \in PromptIds}
              \cup {UserPromptData(uid, "hello", id, 5, Some("qwen-oauth")) :
                      id \in PromptIds}}

\* C10: while tracking is enabled, a trackInteraction call appends exactly one
\* entry, the privacy-filtered object of the call, at the tail of the pending
\* sequence; the pending entries are in the order of their calls.
C10_TrackAppendsAtTail ==
  /\ [](\A j, k \in 1..Len(pending) : j < k => pending[j].uid < pending[k].uid)
  /\ [][(/\ nCalls' # nCalls
         /\ settings.supabaseTrackingEnabled /\ settings.consentGiven)
        => /\ Len(pending') = Len(pending) + 1
           /\ SubSeq(pending', 1, Len(pending)) = pending
           /\ pending'[Len(pending')] \in TrackedEntries(settings, nCalls')]_vars

\* two calls were made with tracking enabled and no drain has taken an entry
C10_Witness ==
  /\ Len(pending) = 2
  /\ pending[1].uid = 1 /\ pending[2].uid = 2
  /\ inflight = <<>>
  /\ nDone = 0

\* the objects a trackInteraction call numbered uid may be given
TrackedObjects(uid) ==
  {DirectData(uid, id) : id \in PromptIds}
    \cup {UserPromptData(uid, "hello", id, 5, Some("qwen-oauth")) : id \in PromptIds}

\* C11: redaction is decided per category, for every combination of
\* trackPrompts, trackTokens and trackMetadata: the entry a trackInteraction
\* call appends has the sentinel '[REDACTED]' (which is not empty) as its
\* prompt text exactly when trackPrompts is false and the object's text
\* otherwise; each of its six token fields is absent when trackTokens is
\* false and the object's value otherwise; its metadata is absent when
\* trackMetadata is false and the object's metadata otherwise; no switch
\* touches a field of another category, and the other fields are the
\* object's.
C11_RedactionPerCategory ==
  [][(/\ nCalls' # nCalls
      /\ settings.supabaseTrackingEnabled /\ settings.consentGiven)
     => LET e == pending'[Len(pending')]
        IN \E data \in TrackedObjects(nCalls') :
             /\ REDACTED # ""
             /\ data.promptText # REDACTED
             /\ (e.promptText = REDACTED) <=> ~settings.trackPrompts
             /\ settings.trackPrompts => e.promptText = data.promptText
             /\ \A f \in TokenFields :
                  /\ ~settings.trackTokens => e[f] = None
                  /\ settings.trackTokens => e[f] = data[f]
             /\ ~settings.trackMetadata => e.metadata = None
             /\ settings.trackMetadata => e.metadata = data.metadata
             /\ \A f \in {"promptId", "sessionId", "modelName", "authType",
                          "responseDurationMs", "config"} : e[f] = data[f]]_vars

\* an entry was tracked with trackPrompts and trackMetadata off and
\* trackTokens on: its text is the sentinel, its metadata is absent and its
\* token counts are kept
C11_Witness ==
  \E j \in 1..Len(pending) :
    /\ pending[j].promptText = REDACTED
    /\ pending[j].metadata = None
    /\ pending[j].inputTokenCount # None
    /\ pending[j].at = [prompts |-> FALSE, tokens |-> TRUE, metadata |-> FALSE]

\* the positions of the pending sequence whose entry has promptId id
WithId(q, id) == {j \in 1..Len(q) : q[j].promptId = id}

\* C12: updateInteractionWithResponse applied to the id of a pending entry
\* changes the contents of one entry with that id and nothing else: the
\* pending count is the same, every position holds the entry of the same call
\* with the same promptId as before (no entry moves, none is added), and no
\* sink call is started.
C12_UpdateKeepsTheSequence ==
  [][\A id \in PromptIds :
       (/\ UpdateInteractionWithResponse({id}, {ApiResponseData})
        /\ WithId(pending, id) # {})
       => /\ Len(pending') = Len(pending)
          /\ \A j \in 1..Len(pending) :
               /\ pending'[j].uid = pending[j].uid
               /\ pending'[j].promptId = pending[j].promptId
               /\ pending'[j] # pending[j] => j \in WithId(pending, id)
          /\ Cardinality({j \in 1..Len(pending) : pending'[j] # pending[j]}) <= 1
          /\ UNCHANGED <<inflight, isProcessing, retryCount>>]_vars

\* the second of two pending entries has been updated by its id: it is still
\* second, and the first entry is as it was tracked
C12_Witness ==
  /\ Len(pending) = 2
  /\ pending[1].promptId = "p1" /\ pending[1].responseDurationMs = None
  /\ pending[2].promptId = "p2" /\ pending[2].responseDurationMs = Some(1200)
  /\ pending[1].uid = 1 /\ pending[2].uid = 2

\* C13: updateInteractionWithResponse with an id no pending entry has (an id
\* never tracked, or the id of an entry that is in flight, delivered or
\* abandoned) changes nothing: the pending sequence and isProcessing are as
\* before and no sink call is started or altered.
C13_UnknownIdIsNoOp ==
  [][\A id \in PromptIds :
       (/\ UpdateInteractionWithResponse({id}, {OutputOnlyData})
        /\ WithId(pending, id) = {})
       => UNCHANGED <<pending, isProcessing, inflight, retryCount, settings,
                      privacyFile>>]_vars

\* an entry has been abandoned by the sink while another entry is pending,
\* and no pending entry has id p2
C13_Witness ==
  /\ \E i \in 1..Len(inflight) :
       /\ inflight[i].data.promptId = "p1"
       /\ inflight[i].data.fate = "abandoned"
  /\ WithId(pending, "p2") = {}
  /\ pending # <<>>

\* the keys of an optional metadata object
MetaKeys(m) == IF IsDefined(m) THEN DOMAIN Get(m) ELSE {}

\* merged is existing with the keys of responseData laid over it: every scalar
\* key supplied has the supplied value, the metadata holds the keys of both
\* with the supplied value for a key both have, every other field is kept
IsMergeOf(merged, existing, responseData) ==
  LET supplied == IF "metadata" \in DOMAIN responseData
                  THEN responseData.metadata ELSE None
  IN /\ \A f \in (DOMAIN responseData) \ {"metadata"} : merged[f] = responseData[f]
     /\ \A f \in (DOMAIN existing) \ ((DOMAIN responseData) \cup {"metadata"}) :
          merged[f] = existing[f]
     /\ IsDefined(merged.metadata)
     /\ MetaKeys(merged.metadata) = MetaKeys(existing.metadata) \cup MetaKeys(supplied)
     /\ \A k \in MetaKeys(merged.metadata) :
          Get(merged.metadata)[k] = IF k \in MetaKeys(supplied)
                                    THEN Get(supplied)[k]
                                    ELSE Get(existing.metadata)[k]

\* C14: an update applied to a pending entry before a drain takes it is what
\* the sink is later given: after updateInteractionWithResponse(id, fields)
\* the entry carries the supplied value of every scalar field supplied, its
\* metadata is the key-wise union of the old and the supplied metadata with
\* the supplied keys winning, and every field not named keeps its value; the
\* drain that takes the entry hands the sink exactly these values.
C14_UpdateIsDispatched ==
  /\ [][\A id \in PromptIds :
          (/\ UpdateInteractionWithResponse({id}, {ApiResponseData})
           /\ sinkEnabled
           /\ WithId(pending, id) # {})
          => \E j \in WithId(pending, id) :
               /\ IsMergeOf(pending'[j], pending[j], ApiResponseData)
               /\ \A k \in 1..Len(pending) : k # j => pending'[k] = pending[k]]_vars
  /\ [][(inflight = <<>> /\ inflight' # <<>> /\ nCalls' = nCalls)
        => /\ Len(inflight') <= Len(pending)
           /\ \A k \in 1..Len(inflight') :
                ToInteraction(inflight'[k].data) = ToInteraction(pending[k])]_vars

\* the sink has been given an entry that was updated while pending: the
\* output count is the supplied 42, the input count is the tracked 10, and
\* the metadata holds the tracked key and the supplied keys
C14_Witness ==
  \E i \in 1..Len(inflight) :
    LET interaction == ToInteraction(inflight[i].data)
    IN /\ inflight[i].st = "insert"
       /\ interaction.output_token_count = Some(42)
       /\ interaction.input_token_count = Some(10)
       /\ MetaKeys(interaction.metadata) = {"test", "model", "statusCode", "error"}

\* C15: once a drain has taken an entry, what the sink sends for it, on its
\* first send and on every retry, is what the entry held at that moment: no
\* step changes the interaction of a sink call in flight, and an
\* updateInteractionWithResponse for the id of an entry that is in flight or
\* already delivered, with no pending entry of that id, is dropped: it
\* changes neither the sink calls nor the pending sequence.
C15_TakenEntryIsFixed ==
  /\ [][\A i \in 1..Len(inflight), j \in 1..Len(inflight') :
          inflight[i].data.uid = inflight'[j].data.uid
            => ToInteraction(inflight'[j].data) = ToInteraction(inflight[i].data)]_vars
  /\ [][\A id \in PromptIds :
          (/\ UpdateInteractionWithResponse({id}, {OutputOnlyData})
           /\ WithId(pending, id) = {})
          => UNCHANGED <<inflight, pending>>]_vars
  /\ [][UpdateInteractionWithResponse(PromptIds, {OutputOnlyData})
        => UNCHANGED inflight]_vars

\* an entry is being sent again after a transient failure with the output
\* count it had when taken (20), while a later entry with the same id has
\* received an update (25) in the pending sequence
C15_Witness ==
  /\ \E i \in 1..Len(inflight) :
       /\ inflight[i].st = "insert"
       /\ inflight[i].attempts >= 2
       /\ inflight[i].data.promptId = "p1"
       /\ inflight[i].data.outputTokenCount = Some(20)
  /\ \E j \in 1..Len(pending) :
       pending[j].promptId = "p1" /\ pending[j].outputTokenCount = Some(25)

\* the uids of a sequence of entries, and of a sequence of sink calls, in order
UidSeq(q) == [j \in 1..Len(q) |-> q[j].uid]
SentUidSeq(infl) == [i \in 1..Len(infl) |-> infl[i].data.uid]

IdSeq(q) == [j \in 1..Len(q) |-> q[j].promptId]

\* the sink calls in flight are those of the drain that took entries 1 to
\* batchSize at once: the drain the threshold started in a burst no timer
\* tick has cut into
ThresholdDrain ==
  /\ Len(inflight) = batchSize
  /\ inflight[1].data.uid = 1

\* C17: when a trackInteraction call brings the pending count to batchSize
\* while no drain is active, the call itself starts a drain, without waiting
\* for a timer tick, and the drain takes exactly those batchSize entries.
\* For the calls p1, p2, ..., p12 in a row with batchSize 10 and a sink that
\* succeeds, that drain is the only one started, and p11 and p12 (the entries
\* tracked after the tenth) are what is pending while it runs and when it
\* completes.
C17_ThresholdStartsTheDrain ==
  /\ [][(/\ nCalls' # nCalls
         /\ ~isProcessing
         /\ Len(pending) + 1 = batchSize)
        => /\ isProcessing'
           /\ pending' = <<>>
           /\ SentUidSeq(inflight') = Append(UidSeq(pending), nCalls')
           /\ \A i \in 1..Len(inflight') : inflight'[i].st = "insert"]_vars
  /\ [](ThresholdDrain
          => /\ nDone = 0
             /\ isProcessing
             /\ \A i \in 1..Len(inflight) : inflight[i].drain = 1
             /\ IdSeq(pending) = [k \in 1..(nCalls - batchSize) |-> BurstId(batchSize + k)])
  /\ [][(ThresholdDrain /\ inflight' = <<>>)
        => /\ ~isProcessing'
           /\ pending' = pending
           /\ nDone' = batchSize]_vars

\* p1 to p12 have been tracked in a row: the sends of the drain the tenth
\* call started have all succeeded, and p11 and p12 are pending
C17_Witness ==
  /\ ThresholdDrain
  /\ batchSize = 10
  /\ nCalls = 12
  /\ \A i \in 1..Len(inflight) : inflight[i].data.fate = "delivered"
  /\ IdSeq(pending) = <<"p11", "p12">>

\* C18: whatever the sink does (disabled, a required field missing, an
\* insert answered with an error, an insert that throws, retries exhausted),
\* no error comes out of it towards trackInteraction, trackUserPrompt or
\* updateInteractionWithResponse: every sink call still running has handed
\* back nothing yet (it waits for its insert or for a retry), every sink call
\* that has ended handed back true or false and never threw, one that handed
\* back false left its record dropped or abandoned, and no record came back
\* into the pending sequence through the catch block of the drain.
C18_NoErrorReachesTheCaller ==
  /\ \A i \in 1..Len(inflight) :
       /\ inflight[i].result \in {"none", "true", "false"}
       /\ inflight[i].st \in {"insert", "backoff"} => inflight[i].result = "none"
       /\ inflight[i].st = "settled" =>
            /\ inflight[i].result \in {"true", "false"}
            /\ inflight[i].result = "true" <=> inflight[i].data.fate = "delivered"
            /\ inflight[i].result = "false" =>
                 inflight[i].data.fate \in {"dropped", "abandoned"}
  /\ \A j \in 1..Len(pending) : pending[j].fate = "none" /\ pending[j].takes = 0

\* two sink calls of an enabled sink have ended with false: one for a record
\* without prompt text, one after its retries were exhausted
C18_Witness ==
  /\ sinkEnabled
  /\ \E i, j \in 1..Len(inflight) :
       /\ inflight[i].st = "settled"
       /\ inflight[i].result = "false"
       /\ inflight[i].data.promptText = ""
       /\ inflight[j].st = "settled"
       /\ inflight[j].result = "false"
       /\ inflight[j].data.fate = "abandoned"

\* C19: the sends of one batch are fanned out and independent.  The step
\* that starts a drain starts the sink call of every entry it took, before
\* the drain waits for any of them; and what the sink call of an entry
\* returns depends on its own inserts only, whatever fails, is retried or
\* waits in backoff next to it: a call gives up with its retries exhausted
\* only when the entry itself has been sent maxRetries + 1 times.
C19_SendsAreIndependent ==
  /\ [][(isProcessing' /\ ~isProcessing)
        => /\ Len(inflight') > Len(inflight)
           /\ \A i \in (Len(inflight) + 1)..Len(inflight') :
                /\ inflight'[i].data.takes >= 1
                /\ inflight'[i].st \in {"insert", "settled"}
                /\ inflight'[i].st = "insert" => inflight'[i].attempts = 1]_vars
  /\ [][\A i \in 1..Len(inflight) :
          (/\ i <= Len(inflight')
           /\ inflight'[i].data.uid = inflight[i].data.uid
           /\ inflight[i].st = "insert"
           /\ inflight'[i].data.fate = "abandoned")
          => inflight[i].attempts = maxRetries + 1]_vars

\* two entries of one batch: the sink call of one gave up with retries
\* exhausted while the other, sent for the fourth time, had used up all
\* maxRetries retries
C19_Witness ==
  \E i, j \in 1..Len(inflight) :
    /\ i # j
    /\ inflight[i].drain = inflight[j].drain
    /\ inflight[i].st = "insert"
    /\ inflight[i].attempts = maxRetries + 1
    /\ inflight[j].data.fate = "abandoned"
    /\ retryCount = 0

\* C20: in the row of every insert under way each of the six token columns
\* holds a non-negative integer, and holds 0 where the pending record had no
\* value or a value that is no integer.
C20_RowCountsAreNaturals ==
  \A i \in 1..Len(inflight) :
    inflight[i].st = "insert" =>
      LET interaction == ToInteraction(inflight[i].data)
          row == InsertedRow(interaction)
      IN \A c \in TokenColumns :
           /\ IsInteger(row[c])
           /\ \A n \in row[c] : n >= 0
           /\ ~IsInteger(interaction[c]) => row[c] = Some(0)

\* an insert is under way for a record that held a negative count, a count
\* that is no integer and no value for a third count
C20_Witness ==
  \E i \in 1..Len(inflight) :
    /\ inflight[i].st = "insert"
    /\ inflight[i].data.inputTokenCount = Some(-5)
    /\ inflight[i].data.outputTokenCount = Between(1)
    /\ inflight[i].data.cachedTokenCount = None
    /\ InsertedRow(ToInteraction(inflight[i].data)).output_token_count = Some(0)
    /\ InsertedRow(ToInteraction(inflight[i].data)).cached_token_count = Some(0)

\* the record lacks one of the fields the sink requires
LacksRequired(data) ==
  data.promptText = "" \/ data.promptId = "" \/ data.sessionId = ""

\* C21: a record without prompt text, prompt id or session id is rejected by
\* the sink before any insert: the sink call of such a record is never
\* waiting for an insert or for a retry, it has ended with false and the
\* record dropped, and the record is not put back into the pending sequence
\* (a pending record lacking a required field has never been taken by a
\* drain).
C21_InvalidIsRejectedAtOnce ==
  /\ \A i \in 1..Len(inflight) :
       LacksRequired(inflight[i].data) =>
         /\ inflight[i].st = "settled"
         /\ inflight[i].result = "false"
         /\ inflight[i].data.fate = "dropped"
         /\ inflight[i].data.takes = 1
  /\ \A j \in 1..Len(pending) :
       LacksRequired(pending[j]) => pending[j].takes = 0 /\ pending[j].fate = "none"

\* an enabled sink has rejected a record without prompt id while the insert
\* of another record of the same batch is under way
C21_Witness ==
  /\ sinkEnabled
  /\ \E i, j \in 1..Len(inflight) :
       /\ inflight[i].data.promptId = ""
       /\ inflight[i].st = "settled"
       /\ inflight[i].result = "false"
       /\ inflight[j].drain = inflight[i].drain
       /\ inflight[j].st = "insert"

\* C22: when the insert of a sink call answers with an error object, or
\* throws an error whose message names none of network, timeout,
\* ECONNREFUSED and ENOTFOUND, that call ends at once with false: the record
\* is not sent again and waits for no backoff, the retry counter keeps its
\* value, and nothing else in flight or pending changes.
C22_HardFailureIsNotRetried ==
  [][\A i \in 1..Len(inflight) :
       (InsertErrorAt(i) \/ InsertThrowsAt(i, "unexpected"))
       => /\ inflight'[i].st = "settled"
          /\ inflight'[i].result = "false"
          /\ inflight'[i].delay = 0
          /\ inflight'[i].data.takes = inflight[i].data.takes
          /\ retryCount' = retryCount
          /\ pending' = pending
          /\ \A k \in 1..Len(inflight) :
               k # i => inflight'[k] = inflight[k]]_vars

\* a sink call ended with false for a record that has every required field
\* and was sent exactly once, with no retry counted
C22_Witness ==
  /\ sinkEnabled
  /\ retryCount = 0
  /\ \E i \in 1..Len(inflight) :
       /\ ~LacksRequired(inflight[i].data)
       /\ inflight[i].st = "settled"
       /\ inflight[i].result = "false"
       /\ inflight[i].data.fate = "dropped"

\* C23: getQueueStatus is a read-only snapshot.  A call returns the length
\* of the pending sequence as pendingCount, the isProcessing flag and the
\* sink's isEnabled as they are at the call, and changes nothing of the
\* tracker, the sink or the privacy settings; on a tracker nothing has been
\* tracked with it returns pendingCount 0 and isProcessing false.
C23_StatusIsASnapshot ==
  /\ [][GetQueueStatus
        => /\ Get(queueStatus').pendingCount = Len(pending)
           /\ Get(queueStatus').isProcessing = isProcessing
           /\ Get(queueStatus').isEnabled = sinkEnabled
           /\ DOMAIN Get(queueStatus') = {"pendingCount", "isProcessing", "isEnabled"}
           /\ UNCHANGED <<pending, isProcessing, inflight, batchSize, timerActive,
                          flushWaiting, sinkEnabled, retryCount, settings,
                          privacyFile>>]_vars
  /\ []((queueStatus # None /\ nCalls = 0)
          => /\ Get(queueStatus).pendingCount = 0
             /\ Get(queueStatus).isProcessing = FALSE)

\* getQueueStatus has returned a count of one pending entry while a drain
\* was running
C23_Witness ==
  /\ queueStatus = Some([pendingCount |-> 1, isProcessing |-> TRUE, isEnabled |-> TRUE])
  /\ Len(pending) = 1
  /\ isProcessing

\* C24: the shutdown hook clears the periodic timer, so that no timer tick
\* starts a drain afterwards, and then flushes: with a sink that succeeds,
\* nothing is pending when the hook's flush has returned, also when a drain
\* was in flight at the moment of the signal.
C24_ShutdownLeavesNothingPending ==
  /\ [][Shutdown => ~timerActive']_vars
  /\ [][~timerActive => ~(TimerTick /\ inflight' # inflight)]_vars
  /\ []((~timerActive /\ flushResolved) => Len(pending) = 0)

\* the hook has run while a drain was in flight and its flush has returned
\* with an entry still pending
C24_Witness ==
  /\ ~timerActive
  /\ flushResolved
  /\ isProcessing
  /\ Len(pending) = 1

\* C25: a flush() call eventually returns.  With a sink whose every call
\* returns in the end, a flush that awaits a drain gets to its return after
\* finitely many drains, also when every send fails.
C25_FlushEventuallyResolves == (flushWaiting # 0) ~> (flushWaiting = 0)

\* a flush() call awaits a drain one of whose sends has been given up after
\* exhausted retries
C25_Witness ==
  /\ flushWaiting # 0
  /\ \E i \in 1..Len(inflight) :
       /\ inflight[i].drain = flushWaiting
       /\ inflight[i].data.fate = "abandoned"

\* C26: after any sequence of giveConsent, revokeConsent and updateSettings,
\* isTrackingEnabled is true exactly when supabaseTrackingEnabled and
\* consentGiven are both true, and shouldTrackPrompts, shouldTrackTokens and
\* shouldTrackMetadata are true only if isTrackingEnabled is.  Right after
\* revokeConsent all four are false, right after giveConsent
\* isTrackingEnabled is true, and both leave trackPrompts, trackTokens,
\* trackMetadata and dataRetentionDays as they were.
C26_TrackingFollowsConsent ==
  /\ [](/\ isTrackingEnabled(settings)
             <=> (settings.supabaseTrackingEnabled /\ settings.consentGiven)
        /\ shouldTrackPrompts(settings)
             => (settings.supabaseTrackingEnabled /\ settings.consentGiven)
        /\ shouldTrackTokens(settings)
             => (settings.supabaseTrackingEnabled /\ settings.consentGiven)
        /\ shouldTrackMetadata(settings)
             => (settings.supabaseTrackingEnabled /\ settings.consentGiven))
  /\ [][RevokeConsentOp(MaxConsentOps)
        => /\ ~isTrackingEnabled(settings')
           /\ ~shouldTrackPrompts(settings')
           /\ ~shouldTrackTokens(settings')
           /\ ~shouldTrackMetadata(settings')]_vars
  /\ [][GiveConsentOp(MaxConsentOps) => isTrackingEnabled(settings')]_vars
  /\ [][(GiveConsentOp(MaxConsentOps) \/ RevokeConsentOp(MaxConsentOps))
        => /\ settings'.trackPrompts = settings.trackPrompts
           /\ settings'.trackTokens = settings.trackTokens
           /\ settings'.trackMetadata = settings.trackMetadata
           /\ settings'.dataRetentionDays = settings.dataRetentionDays]_vars

\* consent was given and then revoked on settings whose retention period and
\* prompt switch had been changed
C26_Witness ==
  /\ settings.consentDate = Some("date")
  /\ ~settings.consentGiven
  /\ ~settings.supabaseTrackingEnabled
  /\ settings.dataRetentionDays = 30
  /\ settings.trackPrompts

\* C27: the consent prompt is shown at most once per session.  With no
\* resetSession call made, shouldShowConsentPrompt has returned shouldShow
\* true at most once, whatever consent changes and markPromptShown calls
\* lie in between (and at most once more for each resetSession); and a call
\* never returns true when the sink has no configuration, when tracking is
\* enabled, or when the prompt was already shown or marked as shown.
C27_PromptAtMostOncePerSession ==
  /\ [](nResets = 0 => nShown <= 1)
  /\ [](nShown <= nResets + 1)
  /\ [][(ShouldShowConsentPrompt /\ promptResult' = Some(TRUE))
        => /\ sinkEnabled
           /\ ~(settings.supabaseTrackingEnabled /\ settings.consentGiven)
           /\ ~hasShownPromptThisSession
           /\ hasShownPromptThisSession']_vars

\* the prompt was shown once, consent was given and revoked again, and a
\* later call, with no resetSession in between, answered false
C27_Witness ==
  /\ nResets = 0
  /\ nShown = 1
  /\ promptResult = Some(FALSE)
  /\ sinkEnabled
  /\ settings.consentDate = Some("date")
  /\ ~settings.consentGiven

\* the uids of the entries of the sink calls in flight
InflightUids(infl) == {infl[i].data.uid : i \in 1..Len(infl)}

\* C28: a record enqueued while a drain is in flight is not part of that
\* drain's batch, also when the batch holds fewer than batchSize entries.
\* The trackInteraction call appends it to the pending sequence and leaves
\* the sink calls in flight as they are; every entry in flight was tracked
\* before every pending entry; and an entry leaves the pending sequence only
\* in a step that starts a new drain (timer tick, threshold, flush), when
\* every sink call of the drain before has ended.
C28_EnqueuedMidDrainWaits ==
  /\ [][(isProcessing /\ nCalls' # nCalls)
        => /\ inflight' = inflight
           /\ isProcessing'
           /\ Len(pending') = Len(pending) + 1
           /\ pending'[Len(pending')].uid = nCalls'
           /\ SubSeq(pending', 1, Len(pending)) = pending]_vars
  /\ [](\A i \in 1..Len(inflight), j \in 1..Len(pending) :
          inflight[i].data.uid < pending[j].uid)
  /\ [][\A uid \in UidsOf(pending) \ UidsOf(pending') :
          /\ uid \in InflightUids(inflight')
          /\ Unsettled = {}
          /\ InflightUids(inflight') \cap InflightUids(inflight) = {}
          /\ isProcessing']_vars

\* an entry was tracked while the one insert of a drain, a batch below
\* batchSize, is under way: it is pending
C28_Witness ==
  /\ isProcessing
  /\ Len(inflight) = 1
  /\ Len(inflight) < batchSize
  /\ inflight[1].st = "insert"
  /\ Len(pending) = 1
  /\ pending[1].uid = inflight[1].data.uid + 1

\* C29: two records tracked with the same promptId before either is drained
\* are two pending entries in the order of their calls: the call for the
\* second appends an entry and leaves the first as it is; the entries are
\* handed to the sink in that order; and an updateInteractionWithResponse for
\* the id changes the earliest pending entry with it and no other.
C29_SameIdEntriesStayApart ==
  /\ [][(nCalls' # nCalls
         /\ \E j \in 1..Len(pending) :
              pending[j].promptId = pending'[Len(pending')].promptId)
        => /\ Len(pending') = Len(pending) + 1
           /\ SubSeq(pending', 1, Len(pending)) = pending
           /\ pending'[Len(pending')].uid = nCalls']_vars
  /\ [](/\ \A j, k \in 1..Len(pending) : j < k => pending[j].uid < pending[k].uid
        /\ \A i, k \in 1..Len(inflight) :
             i < k => inflight[i].data.uid < inflight[k].data.uid)
  /\ [][\A id \in PromptIds :
          (/\ UpdateInteractionWithResponse({id}, {OutputOnlyData})
           /\ \E j \in 1..Len(pending) : pending[j].promptId = id)
          => LET first == CHOOSE j \in 1..Len(pending) :
                            /\ pending[j].promptId = id
                            /\ \A k \in 1..Len(pending) :
                                 pending[k].promptId = id => j <= k
             IN /\ Len(pending') = Len(pending)
                /\ pending'[first].outputTokenCount = OutputOnlyData.outputTokenCount
                /\ pending'[first].uid = pending[first].uid
                /\ \A k \in 1..Len(pending) : k # first => pending'[k] = pending[k]]_vars

\* two entries with id p1 are pending in the order of their calls: the
\* first carries the counts of an update for p1, the second the counts it
\* was tracked with
C29_Witness ==
  /\ Len(pending) = 2
  /\ pending[1].promptId = "p1" /\ pending[2].promptId = "p1"
  /\ pending[1].uid = 1 /\ pending[2].uid = 2
  /\ pending[1].outputTokenCount = Some(25)
  /\ pending[2].outputTokenCount = Some(20)

\* C30: the privacy filter leaves promptId and sessionId alone.  Under every
\* combination of trackPrompts, trackTokens and trackMetadata the entry a
\* trackInteraction or trackUserPrompt call queues has the promptId and the
\* sessionId of the submitted record, so that a search of the pending
\* sequence by that id finds an entry.
C30_FilterKeepsTheIds ==
  [][\A id \in PromptIds :
       (/\ \/ TrackDirect({id}, MaxPrivacyCalls)
           \/ TrackUserPrompt({id}, MaxPrivacyCalls)
        /\ Len(pending') > Len(pending))
       => /\ pending'[Len(pending')].promptId = id
          /\ pending'[Len(pending')].sessionId = "s1"
          /\ \E j \in 1..Len(pending') : pending'[j].promptId = id
          /\ FindIndex(pending', id) # 0]_vars

\* an entry tracked with prompts, tokens and metadata all switched off is
\* pending with its prompt text redacted and its ids in place
C30_Witness ==
  \E j \in 1..Len(pending) :
    /\ pending[j].promptText = REDACTED
    /\ pending[j].inputTokenCount = None
    /\ pending[j].metadata = None
    /\ pending[j].promptId = "p2"
    /\ pending[j].sessionId = "s1"

\* C31: with a sink that accepts every send, the records are handed to the
\* sink in the order they were tracked, across the drains.  At every moment
\* the records whose sink call has been started are the first ones tracked
\* (calls 1 to nDone + the number in flight), the calls in flight were started
\* in the order of tracking, and the pending records are the remaining ones
\* in that order; a step that starts sink calls starts them for the records
\* that follow the last one started before.
C31_SinkCallsInTrackingOrder ==
  /\ [](/\ SentUidSeq(inflight) = [i \in 1..Len(inflight) |-> nDone + i]
        /\ UidSeq(pending)
             = [j \in 1..Len(pending) |-> nDone + Len(inflight) + j]
        /\ nDone + Len(inflight) + Len(pending) = nCalls)
  /\ [][\A i \in 1..Len(inflight') :
          inflight'[i].data.uid \notin InflightUids(inflight)
            => \A uid \in 1..(inflight'[i].data.uid - 1) :
                 \/ uid <= nDone'
                 \/ \E k \in 1..(i - 1) : inflight'[k].data.uid = uid]_vars

\* a second drain is under way: the sink calls of the first one were for
\* calls 1 to 3, those in flight are for calls 4 and 5, call 6 is pending
C31_Witness ==
  /\ nDone = 3
  /\ SentUidSeq(inflight) = <<4, 5>>
  /\ UidSeq(pending) = <<6>>

\* a sink call goes from its insert to the wait for a retry
EntersBackoff(i) ==
  /\ i <= Len(inflight')
  /\ inflight[i].st = "insert"
  /\ inflight'[i].st = "backoff"
  /\ inflight'[i].data.uid = inflight[i].data.uid

\* C32: the wait before a retry is retryDelay * 2^(k-1) ms, k being the
\* sink's retry counter after its increment; the counter never exceeds
\* maxRetries and no wait exceeds 4000 ms; and a record that fails alone
\* (the only one of its batch) waits 1000 ms after its first send, 2000 ms
\* after its second and 4000 ms after its third.
C32_BackoffDoubles ==
  /\ [][\A i \in 1..Len(inflight) :
          EntersBackoff(i)
          => /\ retryCount' = retryCount + 1
             /\ inflight'[i].delay = retryDelay * (2 ^ (retryCount' - 1))]_vars
  /\ [](/\ retryCount <= maxRetries
        /\ \A i \in 1..Len(inflight) : inflight[i].delay <= 4000)
  /\ [][(Len(inflight) = 1 /\ EntersBackoff(1))
        => inflight'[1].delay = retryDelay * (2 ^ (inflight[1].attempts - 1))]_vars

\* the one record of a batch waits 2000 ms after its first send
C32_Witness ==
  /\ Len(inflight) = 1
  /\ inflight[1].st = "backoff"
  /\ inflight[1].attempts = 1
  /\ inflight[1].delay = 2000

\* C33: an insert that succeeds leaves the sink's shared retry counter at
\* 0, whichever record it was for and whatever the counter was before.
C33_SuccessResetsCounter ==
  [][\A i \in 1..Len(inflight) :
       (/\ i <= Len(inflight')
        /\ inflight[i].st = "insert"
        /\ inflight'[i].st = "settled"
        /\ inflight'[i].data.fate = "delivered")
       => retryCount' = 0]_vars

\* one record has been delivered while another still waits the 2000 ms of
\* the second retry: the counter was 2 and is 0 now
C33_Witness ==
  /\ retryCount = 0
  /\ \E i, j \in 1..Len(inflight) :
       /\ inflight[i].st = "settled"
       /\ inflight[i].data.fate = "delivered"
       /\ inflight[j].st = "backoff"
       /\ inflight[j].delay = 2000

\* the environment lacks a variable or holds a URL or an email of the wrong form
EnvInvalid(e) ==
  \/ e.url = <<>>
  \/ e.anonKey = <<>>
  \/ e.userEmail = <<>>
  \/ ~UrlParses(e.url)
  \/ ~EmailRegexTest(e.userEmail)

\* C34: a sink constructed with a missing environment variable, an invalid
\* URL or an invalid email is never enabled; and while the sink is not
\* enabled logUserInteraction and deleteUserData return false,
\* getUserInteractions returns the empty list, healthCheck reports unhealthy,
\* none of them issues a remote call, and the records the tracker drains
\* are dropped: settled at once with false and never put back.
C34_DisabledSinkDoesNothing ==
  /\ EnvInvalid(env) => ~sinkEnabled
  /\ ~sinkEnabled
     => /\ \A i \in 1..Len(inflight) :
             /\ inflight[i].st = "settled"
             /\ inflight[i].result = "false"
             /\ inflight[i].data.fate = "dropped"
        /\ \A j \in 1..Len(pending) : pending[j].takes = 0
        /\ nDone + Len(inflight) + Len(pending) = nCalls
        /\ retryCount = 0
        /\ \A reply \in sinkReply :
             /\ ~reply.remote
             /\ reply.op \in {"deleteUserData", "reconnect"} => reply.value = FALSE
             /\ reply.op = "getUserInteractions" => reply.value = <<>>
             /\ reply.op = "healthCheck" => ~reply.value.isHealthy

\* a sink constructed with an email without a dot after the "@": a record
\* has been drained and dropped, and a direct call has returned
C34_Witness ==
  /\ env.url = ValidUrl
  /\ env.anonKey # <<>>
  /\ env.userEmail = <<"t", "@", "e">>
  /\ ~env.validationError
  /\ ~env.createClientThrows
  /\ ~sinkEnabled
  /\ nDone = 1
  /\ \E reply \in sinkReply : reply.op = "healthCheck"

\* C35: deleteAllData revokes consent exactly when the remote bulk delete
\* reported success: then consentGiven and supabaseTrackingEnabled become
\* false (and the settings are saved) and the result is true; when the sink
\* is disabled, the delete answers with an error or throws, the settings and
\* the settings file are unchanged and the result is false.
C35_DeleteRevokesOnSuccessOnly ==
  [][(deleting # None /\ deleting' = None)
     => LET outcome == Get(deleting).outcome
            deleted == sinkEnabled /\ outcome \notin {"error", "throws"}
        IN /\ Get(sinkReply').op = "deleteAllData"
           /\ Get(sinkReply').value = deleted
           /\ deleted
              => /\ ~settings'.consentGiven
                 /\ ~settings'.supabaseTrackingEnabled
                 /\ settings' = [settings EXCEPT !.consentGiven = FALSE,
                                                 !.supabaseTrackingEnabled = FALSE]
                 /\ privacyFile' = Some(settings')
           /\ ~deleted
              => /\ settings' = settings
                 /\ privacyFile' = privacyFile]_vars

\* the second deleteAllData call has issued its remote delete, got a
\* failure and left consent given
C35_Witness ==
  /\ \E reply \in sinkReply : reply.op = "deleteAllData" /\ ~reply.value /\ reply.remote
  /\ settings.consentGiven
  /\ settings.supabaseTrackingEnabled
  /\ nSinkOps = 2
  /\ nSettingsOps = 1
  /\ deleting = None

\* C36: while consent is revoked (tracking disabled) no record is handed
\* to the sink, the records enqueued before the revocation included: no
\* step taken with tracking disabled before and after it starts a sink call
\* for a record that had none.
C36_NoSendAfterRevoke ==
  [][(/\ ~(settings.consentGiven /\ settings.supabaseTrackingEnabled)
      /\ ~(settings'.consentGiven /\ settings'.supabaseTrackingEnabled))
     => \A i \in 1..Len(inflight') :
          inflight'[i].st = "insert"
            => inflight'[i].data.uid \in InflightUids(inflight)]_vars

\* consent is revoked and the insert of a record tracked before the
\* revocation has been issued after it
C36_Witness ==
  /\ ~settings.consentGiven
  /\ ~settings.supabaseTrackingEnabled
  /\ nSettingsOps = 1
  /\ nCalls = 1
  /\ pending = <<>>
  /\ Len(inflight) = 1
  /\ inflight[1].st = "insert"
  /\ sinkEnabled
  /\ nSinkOps = 0

\* C39: under a sustained outage, every send throwing a transient error
\* and the records of a batch retrying on the shared counter, the sends of a
\* drain are finitely many (a record of a batch of n is sent at most
\* maxRetries * n + 1 times), every record taken by a drain leaves it, and
\* isProcessing returns to false.
C39_DrainEndsUnderOutage ==
  /\ [](\A i \in 1..Len(inflight) :
          inflight[i].attempts <= maxRetries * Len(inflight) + 1)
  /\ \A uid \in 1..MaxOutageCalls :
       (uid \in InflightUids(inflight)) ~> (uid \notin InflightUids(inflight))
  /\ isProcessing ~> ~isProcessing

\* one record of a batch of two has given up and reset the counter, the
\* other is being sent for the seventh time
C39_Witness ==
  /\ isProcessing
  /\ Len(inflight) = 2
  /\ \E i, j \in 1..2 :
       /\ inflight[i].st = "settled"
       /\ inflight[i].data.fate = "abandoned"
       /\ inflight[j].st = "insert"
       /\ inflight[j].attempts = 2 * maxRetries + 1

\* C38: isProcessing is true exactly while a drain is in flight: the step
\* that sets it takes a batch from the queue (the record a trackInteraction
\* call has just added included), the step that clears it finds
\* every sink call of the batch settled, whether delivered, answered with
\* false or given up, and the flag is never set with no sink call of a
\* drain outstanding.
C38_FlagMarksTheDrain ==
  /\ [](isProcessing <=> inflight # <<>>)
  /\ [][(~isProcessing /\ isProcessing')
        => /\ Len(inflight') > 0
           /\ Len(inflight') + Len(pending') = Len(pending) + (nCalls' - nCalls)]_vars
  /\ [][(isProcessing /\ ~isProcessing')
        => /\ \A i \in 1..Len(inflight) : inflight[i].st = "settled"
           /\ inflight' = <<>>]_vars

\* a drain in flight with one send answered false and the other waiting
\* for its retry
C38_Witness ==
  /\ isProcessing
  /\ Len(inflight) = 2
  /\ \E i, j \in 1..2 :
       /\ inflight[i].st = "settled"
       /\ inflight[i].result = "false"
       /\ inflight[i].data.fate = "dropped"
       /\ inflight[j].st = "backoff"

\* C40: whenever no insert is awaited and no backoff timer is running at
\* the sink, its shared retry counter is 0.
C40_IdleSinkHasZeroCounter ==
  (\A i \in 1..Len(inflight) : inflight[i].st \notin {"insert", "backoff"})
    => retryCount = 0

\* the drain has completed, nothing is in flight, and the counter is
\* still at 2
C40_Witness ==
  /\ inflight = <<>>
  /\ ~isProcessing
  /\ nDone > 0
  /\ retryCount = 2

\* C37: every tracked record is in exactly one of the states pending, in
\* flight, delivered or abandoned (dropped for good).  Each of the nCalls
\* records is at exactly one place of the pending sequence or of the batch in
\* flight, or its drain has completed; a drain completes only with every
\* record of its batch delivered or dropped for good, and none of them is
\* pending afterwards; so tracked = pending + in flight + delivered +
\* abandoned.
C37_EveryRecordInOneState ==
  /\ [](/\ UidsOf(pending) \cap InflightUids(inflight) = {}
        /\ Cardinality(UidsOf(pending)) = Len(pending)
        /\ Cardinality(InflightUids(inflight)) = Len(inflight)
        /\ UidsOf(pending) \cup InflightUids(inflight) = (nDone + 1)..nCalls
        /\ nCalls = Len(pending) + Len(inflight) + nDone
        /\ \A j \in 1..Len(pending) : pending[j].fate = "none"
        /\ \A i \in 1..Len(inflight) :
             inflight[i].data.fate
               = IF inflight[i].st = "settled"
                 THEN IF inflight[i].result = "true" THEN "delivered"
                      ELSE IF inflight[i].data.fate = "abandoned" THEN "abandoned"
                      ELSE "dropped"
                 ELSE "none")
  /\ [][nDone' # nDone
        => /\ nDone' - nDone
                = Cardinality(InflightUids(inflight) \ InflightUids(inflight'))
           /\ \A i \in 1..Len(inflight) :
                inflight[i].data.uid \notin InflightUids(inflight')
                  => /\ inflight[i].st = "settled"
                     /\ inflight[i].data.fate \in {"delivered", "dropped", "abandoned"}
                     /\ inflight[i].data.uid \notin UidsOf(pending')]_vars
  /\ [][/\ InflightUids(inflight) \ InflightUids(inflight') # {} => nDone' # nDone
        /\ UidsOf(pending) \ UidsOf(pending') \subseteq InflightUids(inflight')]_vars

\* one record pending, one delivered and one given up in the batch in
\* flight
C37_Witness ==
  /\ nCalls = 3
  /\ Len(pending) = 1
  /\ Len(inflight) = 2
  /\ \E i, j \in 1..2 :
       /\ inflight[i].data.fate = "delivered"
       /\ inflight[j].data.fate = "abandoned"

====
